---------------------------- MODULE Spec2Model ----------------------------
(***************************************************************************)
(* libfilter-ng: the circular buffer (src/src/buffer.h) and the filters    *)
(* built on it (src/src/movingmedian.h, src/src/movingmiddle.h).           *)
(*                                                                         *)
(* One Buffer<data_t, uint_t> object is modelled by its six fields plus    *)
(* the caller-owned storage array it points into.  Every public method is  *)
(* one action; the pure queries (full, empty, valid, size, count, first,   *)
(* last, at) are operators over the fields, and an action that calls one   *)
(* of them records what it returned in the call record `op`.               *)
(***************************************************************************)
EXTENDS Integers, Sequences, FiniteSets, TLC

(***************************************************************************)
(* Bounds of the model.                                                    *)
(***************************************************************************)
\* the data_t values stored through the Buffer interface are 0 .. MaxVal
MaxVal == 1
\* the samples fed to a filter are 0 .. MaxSample
MaxSample == 2
\* the size argument of the Buffer constructor and of init is 0 .. MaxSize,
\* and every storage array the caller hands over has MaxSize slots
MaxSize == 4
\* a run of a filter, or of a Buffer that is only pushed to, is at most
\* MaxIn calls of in / pushFront and reset long
MaxIn == 6

(***************************************************************************)
(* Program constants.                                                      *)
(***************************************************************************)
\* uint_t defaults to unsigned short int: arithmetic modulo 2^16
UintMod == 65536
\* data_t(): the value-initialised element
Default == 0
\* nullptr
NullPtr == 0

Values == 0 .. MaxVal
Samples == 0 .. MaxSample
\* the entry of hist that stands for a reset() call
ResetMark == MaxSample + 1
Slots == 0 .. (MaxSize - 1)
\* the storage pointers a caller can pass: nullptr and two distinct arrays
Pointers == {NullPtr, 1, 2}
Sizes == 0 .. MaxSize
\* the size arguments of the objects whose runs are MaxIn samples long: one
\* that is refused and the two smallest capacities
RunSizes == {3, 4, 8}
RunSlots == 0 .. 7
\* the content of a slot of the caller's array that no call has written
Untouched == MaxVal + 1
\* the caller's array before a call
FreshArray == [i \in Slots |-> Untouched]
\* an array of Occurrence structs with counter 0 and value g in every entry
NoOccurrences(g) == [i \in RunSlots |-> [value |-> g, counter |-> 0]]
\* the filter classes with a data_t *buffer and a reset()
FilterKinds == {"MovingMedian", "MovingMiddle", "IntervalMedian",
                "MovingAverage"}
\* no rotation has been made
NoTurns == [from |-> <<>>, net |-> 0]

VARIABLES
    m_buffer_mask,   \* uint_t
    m_buffer_tail,   \* uint_t
    m_buffer_head,   \* uint_t
    m_buffer_count,  \* uint_t
    m_buffer,        \* data_t*: NullPtr or the identity of the bound array
    m_safe_erase,    \* bool
    mem,             \* the content of the array m_buffer points to
    cap,             \* the size argument the object was constructed with
    int_promotes,    \* the build: TRUE when int is wider than uint_t, so that
                     \* uint_t operands are promoted to int before arithmetic
    crashed,         \* the process was stopped by a trap on a null dereference
    op,              \* the latest call: its name, arguments and result
    hist,            \* history: the samples pushed so far, oldest first, with
                     \* a ResetMark for every reset() of a filter
    m_min,           \* MovingMiddle::m_min
    m_max,           \* MovingMiddle::m_max
    array,           \* the caller's array handed to copyToArray, as the
                     \* latest call left it
    m_median,        \* IntervalMedian::m_median
    m_occurrence_buffer,  \* MovingMostFrequentOccurrence::m_occurrence_buffer:
                     \* NullPtr or the identity of the caller's array
    occurrences,     \* the content of the array m_occurrence_buffer points to
    m_sum,           \* MovingAverage::m_sum
    kind,            \* the class of the object
    turned           \* history: the content when the latest run of rotations
                     \* began, and the rotations made since, forward less
                     \* backward

bufvars == <<m_buffer_mask, m_buffer_tail, m_buffer_head, m_buffer_count,
             m_buffer, m_safe_erase, mem>>
cursors == <<m_buffer_mask, m_buffer_tail, m_buffer_head, m_buffer_count>>
buildvars == <<cap, int_promotes, kind>>
filtervars == <<hist, m_min, m_max>>
\* the fields of IntervalMedian and MovingMostFrequentOccurrence
morevars == <<m_median, m_occurrence_buffer, occurrences, m_sum, turned>>
vars == <<m_buffer_mask, m_buffer_tail, m_buffer_head, m_buffer_count,
          m_buffer, m_safe_erase, mem, cap, int_promotes, crashed, op,
          hist, m_min, m_max, array, m_median, m_occurrence_buffer,
          occurrences, m_sum, kind, turned>>

(***************************************************************************)
(* uint_t arithmetic.                                                      *)
(***************************************************************************)
\* conversion of an integer result to uint_t
Wrap(x) == x % UintMod

RECURSIVE BitAnd(_, _)
\* a & b on non-negative operands
BitAnd(a, b) ==
    IF a = 0 \/ b = 0 THEN 0
    ELSE (a % 2) * (b % 2) + 2 * BitAnd(a \div 2, b \div 2)

\* mutant: the cursor wraps one slot early, at mask instead of mask + 1
IncMask_wraps_early(x, mask) == IF mask = 0 THEN 0 ELSE Wrap(x + 1) % mask

\* (++x) &= mask
IncMask(x, mask) == BitAnd(Wrap(x + 1), mask)
\* (--x) &= mask
DecMask(x, mask) == BitAnd(Wrap(x - 1), mask)
\* mutant: the index is taken from head instead of head - 1
BackIndex_from_head(head, index, mask) == BitAnd(Wrap(head - index), mask)

\* (m_buffer_head - 1 - index) & m_buffer_mask
\* (in int after promotion or in uint_t: the low bits agree)
BackIndex(head, index, mask) == BitAnd(Wrap(head - 1 - index), mask)

\* m_buffer_count - 1 as the right operand of a comparison: -1 after
\* promotion to int, UintMod - 1 in uint_t arithmetic
CountMinusOne ==
    IF int_promotes THEN m_buffer_count - 1 ELSE Wrap(m_buffer_count - 1)

(***************************************************************************)
(* The call record.                                                        *)
(***************************************************************************)
\* name: the method; arg: its value / index / size argument; ptr: its
\* pointer argument (NullPtr when none); ret: the value returned or written
\* through the out parameter; has_ret: whether a value was returned or
\* written; acc: whether the call dereferenced m_buffer; before: count()
\* when the call was made; rescan: whether the call ran the rescan loop of
\* MovingMiddle::in
Call(name, arg, ptr, ret, has_ret, acc) ==
    [name |-> name, arg |-> arg, ptr |-> ptr, ret |-> ret,
     has_ret |-> has_ret, acc |-> acc, before |-> m_buffer_count,
     rescan |-> FALSE]

ZeroMem == [i \in Slots |-> Default]
\* the contents an array new to the object may have when init binds it
NewContents == {ZeroMem, [i \in Slots |-> MaxVal]}

(***************************************************************************)
(* Pure queries of Buffer.                                                 *)
(***************************************************************************)
full == m_buffer_count = m_buffer_mask

empty == m_buffer_tail = m_buffer_head

valid == m_buffer # NullPtr

size == IF m_buffer_mask = 0 THEN 0 ELSE m_buffer_mask

count == m_buffer_count

\* mutant: the slot at head instead of the one before it
first_at_head ==
    IF m_buffer = NullPtr \/ m_buffer_head = m_buffer_tail THEN Default
    ELSE mem[m_buffer_head]

first ==
    IF m_buffer = NullPtr \/ m_buffer_head = m_buffer_tail THEN Default
    ELSE mem[BackIndex(m_buffer_head, 0, m_buffer_mask)]

last ==
    IF m_buffer = NullPtr \/ m_buffer_head = m_buffer_tail THEN Default
    ELSE mem[m_buffer_tail]

\* whether at(index) passes its guard and reads a slot
at_reads(index) == ~(m_buffer = NullPtr \/ index > CountMinusOne)

at(index) ==
    IF at_reads(index)
    THEN mem[BackIndex(m_buffer_head, index, m_buffer_mask)]
    ELSE Default

(***************************************************************************)
(* Buffer::erase on a given array content.                                 *)
(***************************************************************************)
\* mutant: the loop stops one slot early
erased_but_last(buffer, mask, m) ==
    IF buffer = NullPtr THEN m
    ELSE [i \in DOMAIN m |-> IF i < mask THEN Default ELSE m[i]]

erased(buffer, mask, m) ==
    IF buffer = NullPtr THEN m
    ELSE [i \in DOMAIN m |-> IF i < mask + 1 THEN Default ELSE m[i]]

(***************************************************************************)
(* Buffer::Buffer(buffer, size, safe_erase): the fields after construction *)
(* over an array whose content is m.                                       *)
(***************************************************************************)
ctor_bad_size(sz) == sz <= 3 \/ BitAnd(sz, Wrap(sz - 1)) # 0

\* mutant: the mask is the size instead of size - 1
ctor_mask_is_size(buffer, sz) ==
    IF ctor_bad_size(sz) THEN 0
    ELSE IF buffer # NullPtr THEN sz ELSE 0

ctor_mask(buffer, sz) ==
    IF ctor_bad_size(sz) THEN 0
    ELSE IF buffer # NullPtr THEN sz - 1 ELSE 0

\* mutant: the pointer is stored before the size is validated
ctor_buffer_unchecked(buffer, sz) == buffer

ctor_buffer(buffer, sz) ==
    IF ctor_bad_size(sz) THEN NullPtr ELSE buffer

Construct(buffer, sz, safe_erase, m) ==
    /\ m_buffer_mask = ctor_mask(buffer, sz)
    /\ m_buffer_tail = 0
    /\ m_buffer_head = 0
    /\ m_buffer_count = 0
    /\ m_buffer = ctor_buffer(buffer, sz)
    /\ m_safe_erase = safe_erase
    /\ mem = IF ctor_buffer(buffer, sz) = NullPtr THEN m
             ELSE IF safe_erase
                  THEN erased(buffer, ctor_mask(buffer, sz), m)
                  ELSE m
    /\ cap = sz
    /\ op = Call("ctor", sz, buffer, Default, FALSE,
                 safe_erase /\ ctor_buffer(buffer, sz) # NullPtr)


(***************************************************************************)
(* The state-changing methods of Buffer.  Each Buf* formula is the effect  *)
(* of the method on the fields and on the storage; the action of the same  *)
(* name as the method adds the call record.                                *)
(***************************************************************************)
\* mutant: count is incremented on every push and the tail never gives way
BufPushFront_counts_always(value) ==
    IF m_buffer = NullPtr THEN UNCHANGED bufvars
    ELSE /\ mem' = [mem EXCEPT ![m_buffer_head] = value]
         /\ m_buffer_head' = IncMask(m_buffer_head, m_buffer_mask)
         /\ m_buffer_count' = Wrap(m_buffer_count + 1)
         /\ UNCHANGED <<m_buffer_tail, m_buffer_mask, m_buffer, m_safe_erase>>

\* mutant: the value is written after head has advanced
BufPushFront_writes_late(value) ==
    IF m_buffer = NullPtr THEN UNCHANGED bufvars
    ELSE LET head1 == IncMask(m_buffer_head, m_buffer_mask) IN
         /\ mem' = [mem EXCEPT ![head1] = value]
         /\ m_buffer_head' = head1
         /\ IF head1 = m_buffer_tail
            THEN /\ m_buffer_tail' = IncMask(m_buffer_tail, m_buffer_mask)
                 /\ UNCHANGED m_buffer_count
            ELSE /\ m_buffer_count' = Wrap(m_buffer_count + 1)
                 /\ UNCHANGED m_buffer_tail
         /\ UNCHANGED <<m_buffer_mask, m_buffer, m_safe_erase>>

BufPushFront(value) ==
    IF m_buffer = NullPtr THEN UNCHANGED bufvars
    ELSE LET head1 == IncMask(m_buffer_head, m_buffer_mask) IN
         /\ mem' = [mem EXCEPT ![m_buffer_head] = value]
         /\ m_buffer_head' = head1
         /\ IF head1 = m_buffer_tail
            THEN /\ m_buffer_tail' = IncMask(m_buffer_tail, m_buffer_mask)
                 /\ UNCHANGED m_buffer_count
            ELSE /\ m_buffer_count' = Wrap(m_buffer_count + 1)
                 /\ UNCHANGED m_buffer_tail
         /\ UNCHANGED <<m_buffer_mask, m_buffer, m_safe_erase>>

pushFront(value) ==
    /\ BufPushFront(value)
    /\ op' = Call("pushFront", value, NullPtr, Default, FALSE, m_buffer # NullPtr)
    /\ UNCHANGED crashed

\* mutant: the value is written before tail has moved back
BufPushBack_writes_first(value) ==
    IF m_buffer = NullPtr THEN UNCHANGED bufvars
    ELSE LET tail1 == DecMask(m_buffer_tail, m_buffer_mask) IN
         /\ mem' = [mem EXCEPT ![m_buffer_tail] = value]
         /\ m_buffer_tail' = tail1
         /\ IF m_buffer_head = tail1
            THEN /\ m_buffer_head' = DecMask(m_buffer_head, m_buffer_mask)
                 /\ UNCHANGED m_buffer_count
            ELSE /\ m_buffer_count' = Wrap(m_buffer_count + 1)
                 /\ UNCHANGED m_buffer_head
         /\ UNCHANGED <<m_buffer_mask, m_buffer, m_safe_erase>>

\* mutant: head does not give way when tail runs into it
BufPushBack_keeps_head(value) ==
    IF m_buffer = NullPtr THEN UNCHANGED bufvars
    ELSE LET tail1 == DecMask(m_buffer_tail, m_buffer_mask) IN
         /\ mem' = [mem EXCEPT ![tail1] = value]
         /\ m_buffer_tail' = tail1
         /\ IF m_buffer_head = tail1
            THEN UNCHANGED <<m_buffer_head, m_buffer_count>>
            ELSE /\ m_buffer_count' = Wrap(m_buffer_count + 1)
                 /\ UNCHANGED m_buffer_head
         /\ UNCHANGED <<m_buffer_mask, m_buffer, m_safe_erase>>

BufPushBack(value) ==
    IF m_buffer = NullPtr THEN UNCHANGED bufvars
    ELSE LET tail1 == DecMask(m_buffer_tail, m_buffer_mask) IN
         /\ mem' = [mem EXCEPT ![tail1] = value]
         /\ m_buffer_tail' = tail1
         /\ IF m_buffer_head = tail1
            THEN /\ m_buffer_head' = DecMask(m_buffer_head, m_buffer_mask)
                 /\ UNCHANGED m_buffer_count
            ELSE /\ m_buffer_count' = Wrap(m_buffer_count + 1)
                 /\ UNCHANGED m_buffer_head
         /\ UNCHANGED <<m_buffer_mask, m_buffer, m_safe_erase>>

pushBack(value) ==
    /\ BufPushBack(value)
    /\ op' = Call("pushBack", value, NullPtr, Default, FALSE, m_buffer # NullPtr)
    /\ UNCHANGED crashed

\* want: the caller passes a non-null value pointer
want_ptr(want) == IF want THEN 1 ELSE NullPtr

\* mutant: the test for an empty buffer is left out
popFront_no_empty_test(want) ==
    /\ IF m_buffer = NullPtr
       THEN /\ UNCHANGED bufvars
            /\ op' = Call("popFront", Default, want_ptr(want), Default, FALSE, FALSE)
       ELSE LET head1 == DecMask(m_buffer_head, m_buffer_mask) IN
            /\ m_buffer_head' = head1
            /\ m_buffer_count' = Wrap(m_buffer_count - 1)
            /\ UNCHANGED <<m_buffer_mask, m_buffer_tail, m_buffer,
                           m_safe_erase, mem>>
            /\ op' = Call("popFront", Default, want_ptr(want),
                          IF want THEN mem[head1] ELSE Default, want, want)
    /\ UNCHANGED crashed

\* mutant: the head moves back but the count stays
popFront_keeps_count(want) ==
    /\ IF m_buffer = NullPtr \/ m_buffer_tail = m_buffer_head
       THEN /\ UNCHANGED bufvars
            /\ op' = Call("popFront", Default, want_ptr(want), Default, FALSE, FALSE)
       ELSE LET head1 == DecMask(m_buffer_head, m_buffer_mask) IN
            /\ m_buffer_head' = head1
            /\ UNCHANGED <<m_buffer_mask, m_buffer_tail, m_buffer_count,
                           m_buffer, m_safe_erase, mem>>
            /\ op' = Call("popFront", Default, want_ptr(want),
                          IF want THEN mem[head1] ELSE Default, want, want)
    /\ UNCHANGED crashed

popFront(want) ==
    /\ IF m_buffer = NullPtr \/ m_buffer_tail = m_buffer_head
       THEN /\ UNCHANGED bufvars
            /\ op' = Call("popFront", Default, want_ptr(want), Default, FALSE, FALSE)
       ELSE LET head1 == DecMask(m_buffer_head, m_buffer_mask) IN
            /\ m_buffer_head' = head1
            /\ m_buffer_count' = Wrap(m_buffer_count - 1)
            /\ UNCHANGED <<m_buffer_mask, m_buffer_tail, m_buffer,
                           m_safe_erase, mem>>
            /\ op' = Call("popFront", Default, want_ptr(want),
                          IF want THEN mem[head1] ELSE Default, want, want)
    /\ UNCHANGED crashed

\* mutant: the element is read after the tail has moved on
popBack_reads_late(want) ==
    /\ IF m_buffer = NullPtr \/ m_buffer_tail = m_buffer_head
       THEN /\ UNCHANGED bufvars
            /\ op' = Call("popBack", Default, want_ptr(want), Default, FALSE, FALSE)
       ELSE LET tail1 == IncMask(m_buffer_tail, m_buffer_mask) IN
            /\ m_buffer_tail' = tail1
            /\ m_buffer_count' = Wrap(m_buffer_count - 1)
            /\ UNCHANGED <<m_buffer_mask, m_buffer_head, m_buffer,
                           m_safe_erase, mem>>
            /\ op' = Call("popBack", Default, want_ptr(want),
                          IF want THEN mem[tail1] ELSE Default,
                          want, want)
    /\ UNCHANGED crashed

popBack(want) ==
    /\ IF m_buffer = NullPtr \/ m_buffer_tail = m_buffer_head
       THEN /\ UNCHANGED bufvars
            /\ op' = Call("popBack", Default, want_ptr(want), Default, FALSE, FALSE)
       ELSE /\ m_buffer_tail' = IncMask(m_buffer_tail, m_buffer_mask)
            /\ m_buffer_count' = Wrap(m_buffer_count - 1)
            /\ UNCHANGED <<m_buffer_mask, m_buffer_head, m_buffer,
                           m_safe_erase, mem>>
            /\ op' = Call("popBack", Default, want_ptr(want),
                          IF want THEN mem[m_buffer_tail] ELSE Default,
                          want, want)
    /\ UNCHANGED crashed

\* mutant: the count is not reset
BufClear_keeps_count ==
    /\ m_buffer_tail' = 0
    /\ m_buffer_head' = 0
    /\ mem' = IF m_safe_erase THEN erased(m_buffer, m_buffer_mask, mem) ELSE mem
    /\ UNCHANGED <<m_buffer_mask, m_buffer_count, m_buffer, m_safe_erase>>

BufClear ==
    /\ m_buffer_tail' = 0
    /\ m_buffer_head' = 0
    /\ m_buffer_count' = 0
    /\ mem' = IF m_safe_erase THEN erased(m_buffer, m_buffer_mask, mem) ELSE mem
    /\ UNCHANGED <<m_buffer_mask, m_buffer, m_safe_erase>>

clear ==
    /\ BufClear
    /\ op' = Call("clear", Default, NullPtr, Default, FALSE,
                  m_safe_erase /\ m_buffer # NullPtr)
    /\ UNCHANGED crashed

erase ==
    /\ mem' = erased(m_buffer, m_buffer_mask, mem)
    /\ UNCHANGED <<m_buffer_mask, m_buffer_tail, m_buffer_head,
                   m_buffer_count, m_buffer, m_safe_erase>>
    /\ op' = Call("erase", Default, NullPtr, Default, FALSE, m_buffer # NullPtr)
    /\ UNCHANGED crashed

(***************************************************************************)
(* rotateForeward / rotateBackward test only the count against the mask.   *)
(* With m_buffer == nullptr the fields are all 0, the test passes and the  *)
(* swap dereferences the null pointer: the build either traps (crashed) or *)
(* swaps address 0 with itself and goes on.                                *)
(***************************************************************************)
\* mutant: the cursors move without the swap
rotateForeward_no_swap ==
    IF m_buffer_count # m_buffer_mask
    THEN /\ UNCHANGED <<bufvars, crashed>>
         /\ op' = Call("rotateForeward", Default, NullPtr, Default, FALSE, FALSE)
    ELSE /\ op' = Call("rotateForeward", Default, NullPtr, Default, FALSE, TRUE)
         /\ UNCHANGED <<crashed, mem>>
         /\ m_buffer_head' = IncMask(m_buffer_head, m_buffer_mask)
         /\ m_buffer_tail' = IncMask(m_buffer_tail, m_buffer_mask)
         /\ UNCHANGED <<m_buffer_mask, m_buffer_count, m_buffer, m_safe_erase>>

rotateForeward ==
    IF m_buffer_count # m_buffer_mask
    THEN /\ UNCHANGED <<bufvars, crashed>>
         /\ op' = Call("rotateForeward", Default, NullPtr, Default, FALSE, FALSE)
    ELSE /\ op' = Call("rotateForeward", Default, NullPtr, Default, FALSE, TRUE)
         /\ IF m_buffer = NullPtr
            THEN /\ crashed' \in BOOLEAN
                 /\ mem' = mem
            ELSE /\ UNCHANGED crashed
                 /\ mem' = [mem EXCEPT ![m_buffer_head] = mem[m_buffer_tail],
                                       ![m_buffer_tail] = mem[m_buffer_head]]
         /\ m_buffer_head' = IncMask(m_buffer_head, m_buffer_mask)
         /\ m_buffer_tail' = IncMask(m_buffer_tail, m_buffer_mask)
         /\ UNCHANGED <<m_buffer_mask, m_buffer_count, m_buffer, m_safe_erase>>

\* mutant: the guard tests for an empty buffer instead of a full one
rotateBackward_when_not_empty ==
    IF m_buffer_count = 0
    THEN /\ UNCHANGED <<bufvars, crashed>>
         /\ op' = Call("rotateBackward", Default, NullPtr, Default, FALSE, FALSE)
    ELSE LET prev == BackIndex(m_buffer_head, 0, m_buffer_mask) IN
         /\ op' = Call("rotateBackward", Default, NullPtr, Default, FALSE, TRUE)
         /\ UNCHANGED crashed
         /\ mem' = [mem EXCEPT ![prev] = mem[m_buffer_head],
                               ![m_buffer_head] = mem[prev]]
         /\ m_buffer_head' = DecMask(m_buffer_head, m_buffer_mask)
         /\ m_buffer_tail' = DecMask(m_buffer_tail, m_buffer_mask)
         /\ UNCHANGED <<m_buffer_mask, m_buffer_count, m_buffer, m_safe_erase>>

\* mutant: the cursors move back without the swap
rotateBackward_no_swap ==
    IF m_buffer_count # m_buffer_mask
    THEN /\ UNCHANGED <<bufvars, crashed>>
         /\ op' = Call("rotateBackward", Default, NullPtr, Default, FALSE, FALSE)
    ELSE /\ op' = Call("rotateBackward", Default, NullPtr, Default, FALSE, TRUE)
         /\ UNCHANGED <<crashed, mem>>
         /\ m_buffer_head' = DecMask(m_buffer_head, m_buffer_mask)
         /\ m_buffer_tail' = DecMask(m_buffer_tail, m_buffer_mask)
         /\ UNCHANGED <<m_buffer_mask, m_buffer_count, m_buffer, m_safe_erase>>

rotateBackward ==
    IF m_buffer_count # m_buffer_mask
    THEN /\ UNCHANGED <<bufvars, crashed>>
         /\ op' = Call("rotateBackward", Default, NullPtr, Default, FALSE, FALSE)
    ELSE LET prev == BackIndex(m_buffer_head, 0, m_buffer_mask) IN
         /\ op' = Call("rotateBackward", Default, NullPtr, Default, FALSE, TRUE)
         /\ IF m_buffer = NullPtr
            THEN /\ crashed' \in BOOLEAN
                 /\ mem' = mem
            ELSE /\ UNCHANGED crashed
                 /\ mem' = [mem EXCEPT ![prev] = mem[m_buffer_head],
                                       ![m_buffer_head] = mem[prev]]
         /\ m_buffer_head' = DecMask(m_buffer_head, m_buffer_mask)
         /\ m_buffer_tail' = DecMask(m_buffer_tail, m_buffer_mask)
         /\ UNCHANGED <<m_buffer_mask, m_buffer_count, m_buffer, m_safe_erase>>

(***************************************************************************)
(* The value-returning methods, as calls.                                  *)
(***************************************************************************)
call_at(index) ==
    /\ op' = Call("at", index, NullPtr, at(index), TRUE, at_reads(index))
    /\ UNCHANGED <<bufvars, crashed>>

call_first ==
    /\ op' = Call("first", Default, NullPtr, first, TRUE,
                  ~(m_buffer = NullPtr \/ m_buffer_head = m_buffer_tail))
    /\ UNCHANGED <<bufvars, crashed>>

call_last ==
    /\ op' = Call("last", Default, NullPtr, last, TRUE,
                  ~(m_buffer = NullPtr \/ m_buffer_head = m_buffer_tail))
    /\ UNCHANGED <<bufvars, crashed>>

(***************************************************************************)
(* Buffer::copyToArray(array, start, count).  arr is the array argument:   *)
(* NullPtr or the caller's array.                                          *)
(***************************************************************************)
\* start + count as the left operand of the range test: in int after
\* promotion, in uint_t otherwise
copy_sum(start, cnt) ==
    IF int_promotes THEN start + cnt ELSE Wrap(start + cnt)

\* mutant: the range test is left out
copy_rejects_no_range_test(arr, start, cnt) ==
    \/ m_buffer = NullPtr \/ arr = NullPtr
    \/ m_buffer_head = m_buffer_tail

\* the three early returns
copy_rejects(arr, start, cnt) ==
    \/ m_buffer = NullPtr \/ arr = NullPtr
    \/ m_buffer_head = m_buffer_tail
    \/ copy_sum(start, cnt) > CountMinusOne

\* mutant: count == 0 is not taken as "through the end"
copy_last_index_no_sentinel(start, cnt) == Wrap(start + cnt)

\* uint_t last_index
copy_last_index(start, cnt) ==
    IF cnt = 0 THEN m_buffer_count ELSE Wrap(start + cnt)

\* the indices i for which the loop assigns array[i]
copy_indices(arr, start, cnt) ==
    IF copy_rejects(arr, start, cnt) THEN {}
    ELSE start .. (copy_last_index(start, cnt) - 1)

copyToArray(arr, start, cnt) ==
    /\ array' = [i \in Slots |->
                    IF i \in copy_indices(arr, start, cnt)
                    THEN mem[BackIndex(m_buffer_head, i, m_buffer_mask)]
                    ELSE Untouched]
    /\ op' = Call("copyToArray", <<start, cnt>>, arr, Default, FALSE,
                  copy_indices(arr, start, cnt) # {})
    /\ UNCHANGED <<bufvars, crashed>>

(***************************************************************************)
(* Buffer::init(buffer, size, safe_erase).  m is the content of the array  *)
(* `buffer` points to when it is not the array already bound.              *)
(***************************************************************************)
init_mask(buffer, sz) ==
    IF buffer # m_buffer
    THEN (IF buffer = NullPtr THEN 0 ELSE Wrap(sz - 1))
    ELSE m_buffer_mask

init_buffer(buffer, sz) ==
    IF buffer # m_buffer
    THEN (IF buffer = NullPtr THEN NullPtr ELSE buffer)
    ELSE m_buffer

BufInit(buffer, sz, safe_erase, m) ==
    LET content == IF buffer # m_buffer
                   THEN (IF buffer = NullPtr THEN ZeroMem ELSE m)
                   ELSE mem
    IN
    /\ m_buffer_tail' = 0
    /\ m_buffer_head' = 0
    /\ m_buffer_count' = 0
    /\ m_safe_erase' = safe_erase
    /\ m_buffer_mask' = init_mask(buffer, sz)
    /\ m_buffer' = init_buffer(buffer, sz)
    /\ mem' = IF safe_erase
              THEN erased(init_buffer(buffer, sz), init_mask(buffer, sz), content)
              ELSE content

init(buffer, sz, safe_erase, m) ==
    /\ BufInit(buffer, sz, safe_erase, m)
    /\ op' = Call("init", sz, buffer, Default, FALSE,
                  safe_erase /\ init_buffer(buffer, sz) # NullPtr)
    /\ UNCHANGED crashed

(***************************************************************************)
(* The logical content: at(0) .. at(count()-1), newest first.              *)
(***************************************************************************)
LiveSeq == [i \in 1 .. m_buffer_count |-> at(i - 1)]

(***************************************************************************)
(* Spec: one Buffer object, constructed with any arguments over an array   *)
(* of arbitrary content, then used through every method but init.          *)
(***************************************************************************)
\* szs: the size arguments of the constructor; erases: its safe_erase
\* arguments; contents: what the array handed to it may hold; builds: the
\* values of int_promotes
InitObject(szs, erases, contents, builds) ==
    /\ \E buffer \in {NullPtr, 1}, sz \in szs, safe_erase \in erases :
         \E m \in contents :
            /\ ctor_buffer(buffer, sz) = NullPtr => \A i \in DOMAIN m : m[i] = Default
            /\ \A i \in DOMAIN m : i >= sz => m[i] = m[0]
            /\ Construct(buffer, sz, safe_erase, m)
    /\ int_promotes \in builds
    /\ crashed = FALSE
    /\ hist = <<>>
    /\ m_min = Default
    /\ m_max = Default
    /\ array = FreshArray
    /\ m_median = Default
    /\ m_sum = Default
    /\ turned = NoTurns

\* an object that is no MovingMostFrequentOccurrence
InitWith(szs, erases, contents, builds) ==
    /\ InitObject(szs, erases, contents, builds)
    /\ kind = "Buffer"
    /\ m_occurrence_buffer = NullPtr
    /\ occurrences = NoOccurrences(Default)

Init == InitWith(Sizes, BOOLEAN, [Slots -> Values], BOOLEAN)

\* the calls with their value arguments drawn from vals and their index
\* arguments from idxs
BufferCall(vals, idxs) ==
    \/ \E value \in vals : pushFront(value)
    \/ \E value \in vals : pushBack(value)
    \/ \E want \in BOOLEAN : popFront(want)
    \/ \E want \in BOOLEAN : popBack(want)
    \/ clear
    \/ erase
    \/ rotateForeward
    \/ rotateBackward
    \/ \E index \in idxs : call_at(index)
    \/ call_first
    \/ call_last

Next ==
    /\ ~crashed
    /\ BufferCall(Values, Sizes \cup {UintMod - 1})
    /\ UNCHANGED <<buildvars, filtervars, array, morevars>>

Spec == Init /\ [][Next]_vars

(***************************************************************************)
(* SpecInit: the same object, with init among the calls.  A non-null       *)
(* array is passed together with a size of at least 1.  After an init     *)
(* with a size that is not a power of two the pushes can raise count       *)
(* without limit (up to the width of uint_t): the calls are followed while *)
(* count is below MaxSize.                                                 *)
(***************************************************************************)
InitCall ==
    \E buffer \in Pointers, sz \in Sizes, safe_erase \in BOOLEAN :
       \E m \in NewContents :
          /\ buffer # NullPtr => sz >= 1
          /\ (buffer = NullPtr \/ buffer = m_buffer) => m = ZeroMem
          /\ init(buffer, sz, safe_erase, m)

NextInit ==
    /\ ~crashed
    /\ \/ /\ m_buffer_count < MaxSize
          /\ BufferCall({MaxVal}, {0, MaxSize})
       \/ InitCall
    /\ UNCHANGED <<buildvars, filtervars, array, morevars>>

SpecInit ==
    InitWith({0, MaxSize - 1, MaxSize}, BOOLEAN, NewContents, {TRUE})
    /\ [][NextInit]_vars


(***************************************************************************)
(* SpecPush: a Buffer that is only pushed to at the front and read with    *)
(* at; hist records the values pushed.                                     *)
(***************************************************************************)
ZeroRun == [i \in RunSlots |-> Default]

InitPush ==
    /\ InitWith(RunSizes, {FALSE}, {ZeroRun}, BOOLEAN)
    /\ crashed = FALSE
    /\ hist = <<>>
    /\ m_min = Default
    /\ m_max = Default

NextPush ==
    /\ ~crashed
    /\ \/ \E value \in Values :
            /\ Len(hist) < MaxIn
            /\ pushFront(value)
            /\ hist' = Append(hist, value)
       \/ \E index \in 0 .. size :
            /\ call_at(index)
            /\ UNCHANGED hist
    /\ UNCHANGED <<buildvars, m_min, m_max, array, morevars>>

SpecPush == InitPush /\ [][NextPush]_vars

(***************************************************************************)
(* SpecCopy: the Buffer of Spec with copyToArray among the calls.  The     *)
(* caller's array is looked at right after the call that was handed it.   *)
(***************************************************************************)
\* the start and count arguments: every index of the array and the largest
\* uint_t value
CopyArgs == Slots \cup {UintMod - 1}

NextCopy ==
    /\ ~crashed
    /\ \/ /\ \/ \E value \in {Default, MaxVal} : pushFront(value)
             \/ \E value \in {Default, MaxVal} : pushBack(value)
             \/ popFront(FALSE)
             \/ popBack(FALSE)
             \/ rotateForeward
          /\ array' = FreshArray
       \/ \E arr \in {NullPtr, 1}, start \in CopyArgs, cnt \in CopyArgs :
             copyToArray(arr, start, cnt)
    /\ UNCHANGED <<buildvars, filtervars, morevars>>

SpecCopy ==
    InitWith(Sizes, {FALSE}, NewContents, BOOLEAN) /\ [][NextCopy]_vars

(***************************************************************************)
(* SpecRotate: a Buffer that is pushed to at the front, popped from at the *)
(* back and rotated, with the rotations since the latest push or pop       *)
(* counted in turned.                                                      *)
(***************************************************************************)
\* the content as the call that is being made leaves it, no rotation made
TurnsRestart == turned' = [from |-> LiveSeq', net |-> 0]

\* one more rotation, d = 1 forward and d = -1 backward, when the call
\* rotated; a run is followed for size() rotations either way
TurnsCount(d) ==
    /\ turned.net + d <= size
    /\ turned.net + d >= 0 - size
    /\ turned' = IF op'.acc THEN [turned EXCEPT !.net = @ + d] ELSE turned

NextRotate ==
    /\ ~crashed
    /\ UNCHANGED <<buildvars, filtervars, array, m_median,
                   m_occurrence_buffer, occurrences, m_sum>>
    /\ \/ \E value \in {Default, MaxVal} : pushFront(value) /\ TurnsRestart
       \/ popBack(FALSE) /\ TurnsRestart
       \/ rotateForeward /\ TurnsCount(1)
       \/ rotateBackward /\ TurnsCount(-1)

SpecRotate ==
    InitWith(RunSizes, {FALSE}, {ZeroRun}, BOOLEAN) /\ [][NextRotate]_vars

(***************************************************************************)
(* MovingMedian (src/src/movingmedian.h).                                  *)
(***************************************************************************)
\* mutant: left_index counts the elements equal to cur_element too
median_left_counts_ties(cur_element, buffer_count) ==
    Cardinality({j \in 0 .. (buffer_count - 1) : at(j) <= cur_element})

\* the inner loop of out(): left_index and right_index for cur_element
median_left(cur_element, buffer_count) ==
    Cardinality({j \in 0 .. (buffer_count - 1) : at(j) < cur_element})

\* mutant: right_index counts cur_element once, not its equals
median_right_ignores_ties(cur_element, buffer_count) ==
    Cardinality({j \in 0 .. (buffer_count - 1) : at(j) < cur_element}) + 1

median_right(cur_element, buffer_count) ==
    Cardinality({j \in 0 .. (buffer_count - 1) : at(j) <= cur_element})

RECURSIVE median_scan(_, _, _, _, _, _, _)
\* the outer loop of out() from index i on; the result tells whether
\* median_element was assigned and with what
median_scan(i, buffer_count, middle_index, skip_greater_than_found, skip_greater_than, skip_lesser_than_found, skip_lesser_than) ==
    IF i >= buffer_count
    THEN [assigned |-> FALSE, value |-> Default]
    ELSE LET cur_element == at(i)
             left_index == median_left(cur_element, buffer_count)
             right_index == median_right(cur_element, buffer_count)
         IN
         IF skip_greater_than_found /\ cur_element >= skip_greater_than
         THEN median_scan(i + 1, buffer_count, middle_index,
                          skip_greater_than_found, skip_greater_than,
                          skip_lesser_than_found, skip_lesser_than)
         ELSE IF skip_lesser_than_found /\ cur_element <= skip_lesser_than
         THEN median_scan(i + 1, buffer_count, middle_index,
                          skip_greater_than_found, skip_greater_than,
                          skip_lesser_than_found, skip_lesser_than)
         ELSE IF left_index <= middle_index /\ middle_index < right_index
         THEN [assigned |-> TRUE, value |-> cur_element]
         ELSE IF middle_index < left_index
         THEN median_scan(i + 1, buffer_count, middle_index,
                          TRUE, cur_element,
                          skip_lesser_than_found, skip_lesser_than)
         ELSE IF middle_index >= right_index
         THEN median_scan(i + 1, buffer_count, middle_index,
                          skip_greater_than_found, skip_greater_than,
                          TRUE, cur_element)
         ELSE median_scan(i + 1, buffer_count, middle_index,
                          skip_greater_than_found, skip_greater_than,
                          skip_lesser_than_found, skip_lesser_than)

\* one assignment to a pruning bound: which bound, whether it had been set,
\* the value it held, the value it gets, and both bounds after it
BoundUpdate(bound, was_found, old, new, greater_found, greater, lesser_found, lesser) ==
    [bound |-> bound, was_found |-> was_found, old |-> old, new |-> new,
     greater_found |-> greater_found, greater |-> greater,
     lesser_found |-> lesser_found, lesser |-> lesser]

RECURSIVE median_bounds_no_skip(_, _, _, _, _, _, _)
\* mutant: the two skip tests at the top of the outer loop are left out
median_bounds_no_skip(i, buffer_count, middle_index, skip_greater_than_found, skip_greater_than, skip_lesser_than_found, skip_lesser_than) ==
    IF i >= buffer_count
    THEN <<>>
    ELSE LET cur_element == at(i)
             left_index == median_left(cur_element, buffer_count)
             right_index == median_right(cur_element, buffer_count)
         IN
         IF left_index <= middle_index /\ middle_index < right_index
         THEN <<>>
         ELSE IF middle_index < left_index
         THEN <<BoundUpdate("skip_greater_than", skip_greater_than_found,
                            skip_greater_than, cur_element, TRUE, cur_element,
                            skip_lesser_than_found, skip_lesser_than)>>
              \o median_bounds_no_skip(i + 1, buffer_count, middle_index,
                                       TRUE, cur_element,
                                       skip_lesser_than_found, skip_lesser_than)
         ELSE <<BoundUpdate("skip_lesser_than", skip_lesser_than_found,
                            skip_lesser_than, cur_element,
                            skip_greater_than_found, skip_greater_than,
                            TRUE, cur_element)>>
              \o median_bounds_no_skip(i + 1, buffer_count, middle_index,
                                       skip_greater_than_found, skip_greater_than,
                                       TRUE, cur_element)

RECURSIVE median_bounds(_, _, _, _, _, _, _)
\* the assignments the outer loop of out() makes to skip_greater_than and
\* skip_lesser_than from index i on, in the order it makes them
median_bounds(i, buffer_count, middle_index, skip_greater_than_found, skip_greater_than, skip_lesser_than_found, skip_lesser_than) ==
    IF i >= buffer_count
    THEN <<>>
    ELSE LET cur_element == at(i)
             left_index == median_left(cur_element, buffer_count)
             right_index == median_right(cur_element, buffer_count)
         IN
         IF skip_greater_than_found /\ cur_element >= skip_greater_than
         THEN median_bounds(i + 1, buffer_count, middle_index,
                            skip_greater_than_found, skip_greater_than,
                            skip_lesser_than_found, skip_lesser_than)
         ELSE IF skip_lesser_than_found /\ cur_element <= skip_lesser_than
         THEN median_bounds(i + 1, buffer_count, middle_index,
                            skip_greater_than_found, skip_greater_than,
                            skip_lesser_than_found, skip_lesser_than)
         ELSE IF left_index <= middle_index /\ middle_index < right_index
         THEN <<>>
         ELSE IF middle_index < left_index
         THEN <<BoundUpdate("skip_greater_than", skip_greater_than_found,
                            skip_greater_than, cur_element, TRUE, cur_element,
                            skip_lesser_than_found, skip_lesser_than)>>
              \o median_bounds(i + 1, buffer_count, middle_index,
                               TRUE, cur_element,
                               skip_lesser_than_found, skip_lesser_than)
         ELSE IF middle_index >= right_index
         THEN <<BoundUpdate("skip_lesser_than", skip_lesser_than_found,
                            skip_lesser_than, cur_element,
                            skip_greater_than_found, skip_greater_than,
                            TRUE, cur_element)>>
              \o median_bounds(i + 1, buffer_count, middle_index,
                               skip_greater_than_found, skip_greater_than,
                               TRUE, cur_element)
         ELSE median_bounds(i + 1, buffer_count, middle_index,
                            skip_greater_than_found, skip_greater_than,
                            skip_lesser_than_found, skip_lesser_than)

\* mutant: the median is looked for from 2 elements on
MovingMedian_out_values_from_two ==
    IF m_buffer_count < 2 THEN {Default}
    ELSE LET r == median_scan(0, m_buffer_count, m_buffer_count \div 2,
                              FALSE, Default, FALSE, Default)
         IN IF r.assigned THEN {r.value} ELSE Samples

\* the values out() can return: the default below 3 elements, the element
\* the scan stops at, and any value when it returns median_element
\* without having assigned it
MovingMedian_out_values ==
    IF m_buffer_count < 3 THEN {Default}
    ELSE LET r == median_scan(0, m_buffer_count, m_buffer_count \div 2,
                              FALSE, Default, FALSE, Default)
         IN IF r.assigned THEN {r.value} ELSE Samples

\* mutant: the window is cleared once its median has been taken
MovingMedian_out_consumes ==
    /\ \E ret \in MovingMedian_out_values :
          op' = Call("out", Default, NullPtr, ret, TRUE, m_buffer_count >= 3)
    /\ BufClear
    /\ UNCHANGED <<crashed, hist>>

MovingMedian_out ==
    /\ \E ret \in MovingMedian_out_values :
          op' = Call("out", Default, NullPtr, ret, TRUE, m_buffer_count >= 3)
    /\ UNCHANGED <<bufvars, crashed, hist>>

MovingMedian_in(value) ==
    /\ BufPushFront(value)
    /\ op' = Call("in", value, NullPtr, Default, FALSE, m_buffer # NullPtr)
    /\ hist' = Append(hist, value)
    /\ UNCHANGED crashed

MovingMedian_reset ==
    /\ BufClear
    /\ op' = Call("reset", Default, NullPtr, Default, FALSE, FALSE)
    /\ hist' = Append(hist, ResetMark)
    /\ UNCHANGED crashed

\* a filter constructed over an array of RunSlots elements
InitFilter(k) ==
    /\ InitObject(RunSizes, {FALSE}, {ZeroRun}, BOOLEAN)
    /\ kind = k
    /\ m_occurrence_buffer = NullPtr
    /\ occurrences = NoOccurrences(Default)
    /\ crashed = FALSE
    /\ hist = <<>>
    /\ m_min = Default
    /\ m_max = Default

NextMedian ==
    /\ ~crashed
    /\ \/ \E value \in Samples : Len(hist) < MaxIn /\ MovingMedian_in(value)
       \/ MovingMedian_out
       \/ Len(hist) < MaxIn /\ MovingMedian_reset
    /\ UNCHANGED <<buildvars, m_min, m_max, array, morevars>>

SpecMedian == InitFilter("MovingMedian") /\ [][NextMedian]_vars

(***************************************************************************)
(* MovingMiddle (src/src/movingmiddle.h).                                  *)
(***************************************************************************)
RECURSIVE middle_rescan(_, _, _, _)
\* the rescan loop of in() from index i on: <<m_min, m_max>> at its end
middle_rescan(i, buffer_count, min, max) ==
    IF i >= buffer_count THEN <<min, max>>
    ELSE LET current == at(i) IN
         IF current < min THEN middle_rescan(i + 1, buffer_count, current, max)
         ELSE IF current > max THEN middle_rescan(i + 1, buffer_count, min, current)
         ELSE middle_rescan(i + 1, buffer_count, min, max)

\* mutant: no rescan when the dropped element was a cached extreme
middle_full_update_no_rescan(value, lst, rescanned) ==
    IF value = lst THEN <<m_min, m_max, FALSE>>
    ELSE IF lst = m_min /\ value < m_min THEN <<value, m_max, FALSE>>
    ELSE IF lst = m_max /\ value > m_max THEN <<m_min, value, FALSE>>
    ELSE IF value > m_max THEN <<m_min, value, FALSE>>
    ELSE IF value < m_min THEN <<value, m_max, FALSE>>
    ELSE <<m_min, m_max, FALSE>>

\* mutant: the rescan is run whenever the dropped element differs from the
\* new one
middle_full_update_rescans_always(value, lst, rescanned) ==
    IF value = lst THEN <<m_min, m_max, FALSE>>
    ELSE <<rescanned[1], rescanned[2], TRUE>>

\* <<m_min, m_max, whether the rescan loop ran>> after in(value) on a full
\* buffer whose oldest element was lst; rescanned is what the rescan loop
\* yields on the buffer after the push
middle_full_update(value, lst, rescanned) ==
    IF value = lst THEN <<m_min, m_max, FALSE>>
    ELSE IF lst = m_min /\ value < m_min THEN <<value, m_max, FALSE>>
    ELSE IF lst = m_max /\ value > m_max THEN <<m_min, value, FALSE>>
    ELSE IF lst = m_min \/ lst = m_max
         THEN <<rescanned[1], rescanned[2], TRUE>>
    ELSE IF value > m_max THEN <<m_min, value, FALSE>>
    ELSE IF value < m_min THEN <<value, m_max, FALSE>>
    ELSE <<m_min, m_max, FALSE>>

\* <<m_min, m_max, FALSE>> after in(value) on a buffer that was not full and
\* holds count_after elements after the push
middle_fill_update(value, count_after) ==
    IF count_after = 1 THEN <<value, value, FALSE>>
    ELSE IF value < m_min THEN <<value, m_max, FALSE>>
    ELSE IF value > m_max THEN <<m_min, value, FALSE>>
    ELSE <<m_min, m_max, FALSE>>

MovingMiddle_in(value) ==
    /\ IF ~valid
       THEN /\ UNCHANGED <<bufvars, m_min, m_max>>
            /\ op' = Call("in", value, NullPtr, Default, FALSE, FALSE)
       ELSE /\ BufPushFront(value)
            /\ LET upd == IF full
                          THEN middle_full_update(value, last,
                                   middle_rescan(1, m_buffer_count, first, first)')
                          ELSE middle_fill_update(value, m_buffer_count')
               IN /\ m_min' = upd[1]
                  /\ m_max' = upd[2]
                  /\ op' = [Call("in", value, NullPtr, Default, FALSE, TRUE)
                               EXCEPT !.rescan = upd[3]]
    /\ hist' = Append(hist, value)
    /\ UNCHANGED crashed

MovingMiddle_reset ==
    /\ m_min' = Default
    /\ m_max' = Default
    /\ BufClear
    /\ op' = Call("reset", Default, NullPtr, Default, FALSE, FALSE)
    /\ hist' = Append(hist, ResetMark)
    /\ UNCHANGED crashed

\* const data_t middle = m_min + ((m_max - m_min) / 2.0F): the float sum
\* converted to data_t, which drops the fraction (rounds toward zero)
middle_value ==
    LET twice == 2 * m_min + (m_max - m_min) IN
    IF twice >= 0 THEN twice \div 2 ELSE 0 - ((0 - twice) \div 2)

\* middle > x ? middle - x : x - middle
middle_dist(middle, x) == IF middle > x THEN middle - x ELSE x - middle

\* cur_to_middle_dist < element_to_middle_dist
middle_closer(cur_to_middle_dist, element_to_middle_dist) ==
    cur_to_middle_dist < element_to_middle_dist

RECURSIVE middle_pick(_, _, _, _)
\* the loop of out() from index i on, with candidate element
middle_pick(i, buffer_count, middle, element) ==
    IF i >= buffer_count THEN element
    ELSE LET current == at(i) IN
         IF middle_closer(middle_dist(middle, current),
                          middle_dist(middle, element))
         THEN middle_pick(i + 1, buffer_count, middle, current)
         ELSE middle_pick(i + 1, buffer_count, middle, element)

MovingMiddle_out ==
    /\ op' = Call("out", Default, NullPtr,
                  IF m_buffer_count < 2 THEN Default
                  ELSE middle_pick(1, m_buffer_count, middle_value, first),
                  TRUE, m_buffer_count >= 2)
    /\ UNCHANGED <<bufvars, crashed, hist, m_min, m_max>>

NextMiddle ==
    /\ ~crashed
    /\ UNCHANGED <<buildvars, array, morevars>>
    /\ \/ \E value \in Samples : Len(hist) < MaxIn /\ MovingMiddle_in(value)
       \/ Len(hist) < MaxIn /\ MovingMiddle_reset
       \/ MovingMiddle_out

SpecMiddle == InitFilter("MovingMiddle") /\ [][NextMiddle]_vars

(***************************************************************************)
(* IntervalMedian (src/src/intervalmedian.h).  in() pushes the value and,  *)
(* when that fills the buffer, takes the median of the window and clears   *)
(* the buffer.  The window is the buffer between the push and the clear:   *)
(* w[i + 1] is what at(i) returns there.                                   *)
(***************************************************************************)
\* the fields after Buffer::pushFront(value) on a valid buffer
interval_pushed(value) ==
    LET head1 == IncMask(m_buffer_head, m_buffer_mask) IN
    [head |-> head1,
     tail |-> IF head1 = m_buffer_tail
              THEN IncMask(m_buffer_tail, m_buffer_mask) ELSE m_buffer_tail,
     count |-> IF head1 = m_buffer_tail
               THEN m_buffer_count ELSE Wrap(m_buffer_count + 1),
     mem |-> [mem EXCEPT ![m_buffer_head] = value]]

\* at(0) .. at(buffer_size - 1) of the full buffer p
interval_window(p, buffer_size) ==
    [i \in 1 .. buffer_size |->
        p.mem[BackIndex(p.head, i - 1, m_buffer_mask)]]

\* the inner loop: left_index and right_index for cur_element
interval_left(w, cur_element) ==
    Cardinality({j \in DOMAIN w : w[j] < cur_element})

interval_right(w, cur_element) ==
    Cardinality({j \in DOMAIN w : w[j] <= cur_element})

RECURSIVE interval_scan(_, _, _, _, _, _, _)
\* the outer loop from index i on; the result tells whether m_median is
\* assigned and with what
interval_scan(w, i, middle_index, skip_greater_than_found, skip_greater_than, skip_lesser_than_found, skip_lesser_than) ==
    IF i >= Len(w)
    THEN [assigned |-> FALSE, value |-> Default]
    ELSE LET cur_element == w[i + 1]
             left_index == interval_left(w, cur_element)
             right_index == interval_right(w, cur_element)
         IN
         IF skip_greater_than_found /\ cur_element >= skip_greater_than
         THEN interval_scan(w, i + 1, middle_index,
                            skip_greater_than_found, skip_greater_than,
                            skip_lesser_than_found, skip_lesser_than)
         ELSE IF skip_lesser_than_found /\ cur_element <= skip_lesser_than
         THEN interval_scan(w, i + 1, middle_index,
                            skip_greater_than_found, skip_greater_than,
                            skip_lesser_than_found, skip_lesser_than)
         ELSE IF left_index <= middle_index /\ middle_index < right_index
         THEN [assigned |-> TRUE, value |-> cur_element]
         ELSE IF middle_index < left_index
         THEN interval_scan(w, i + 1, middle_index,
                            TRUE, cur_element,
                            skip_lesser_than_found, skip_lesser_than)
         ELSE IF middle_index >= right_index
         THEN interval_scan(w, i + 1, middle_index,
                            skip_greater_than_found, skip_greater_than,
                            TRUE, cur_element)
         ELSE interval_scan(w, i + 1, middle_index,
                            skip_greater_than_found, skip_greater_than,
                            skip_lesser_than_found, skip_lesser_than)

\* mutant: the buffer is taken as full one element early
interval_full_early(count_after) == count_after + 1 = m_buffer_mask

\* Buffer::full() after the push
interval_full(count_after) == count_after = m_buffer_mask

\* m_median after the scan of the window w
interval_median(w) ==
    LET r == interval_scan(w, 0, Len(w) \div 2, FALSE, Default, FALSE, Default)
    IN IF r.assigned THEN r.value ELSE m_median

IntervalMedian_in(value) ==
    /\ IF ~valid
       THEN /\ UNCHANGED <<bufvars, m_median>>
            /\ op' = Call("in", value, NullPtr, Default, FALSE, FALSE)
       ELSE LET p == interval_pushed(value) IN
            /\ op' = Call("in", value, NullPtr, Default, FALSE, TRUE)
            /\ UNCHANGED <<m_buffer_mask, m_buffer, m_safe_erase>>
            /\ IF interval_full(p.count)
               THEN /\ m_median' = interval_median(interval_window(p, size))
                    /\ m_buffer_tail' = 0
                    /\ m_buffer_head' = 0
                    /\ m_buffer_count' = 0
                    /\ mem' = IF m_safe_erase
                              THEN erased(m_buffer, m_buffer_mask, p.mem)
                              ELSE p.mem
               ELSE /\ m_buffer_tail' = p.tail
                    /\ m_buffer_head' = p.head
                    /\ m_buffer_count' = p.count
                    /\ mem' = p.mem
                    /\ UNCHANGED m_median
    /\ hist' = Append(hist, value)
    /\ UNCHANGED crashed

IntervalMedian_out ==
    /\ op' = Call("out", Default, NullPtr, m_median, TRUE, FALSE)
    /\ UNCHANGED <<bufvars, crashed, hist, m_median>>

IntervalMedian_reset ==
    /\ m_median' = Default
    /\ BufClear
    /\ op' = Call("reset", Default, NullPtr, Default, FALSE, FALSE)
    /\ hist' = Append(hist, ResetMark)
    /\ UNCHANGED crashed

NextInterval ==
    /\ ~crashed
    /\ \/ \E value \in Samples : Len(hist) < MaxIn /\ IntervalMedian_in(value)
       \/ IntervalMedian_out
       \/ Len(hist) < MaxIn /\ IntervalMedian_reset
    /\ UNCHANGED <<buildvars, m_min, m_max, array, m_occurrence_buffer,
                   occurrences, m_sum, turned>>

SpecInterval == InitFilter("IntervalMedian") /\ [][NextInterval]_vars

(***************************************************************************)
(* MovingMostFrequentOccurrence (src/src/movingmostfrequentoccurance.h).   *)
(* The caller's Occurrence array has counter 0 in every entry (the default *)
(* member initialiser) and whatever the caller left in value.              *)
(***************************************************************************)
RECURSIVE mfo_decremented(_, _, _, _)
\* the first loop of in() from index i on: the entry that holds lst loses
\* one occurrence and is cleared when none is left
mfo_decremented(occ, lst, i, buffer_size) ==
    IF i >= buffer_size THEN occ
    ELSE IF occ[i].value = lst
         THEN LET counter == Wrap(occ[i].counter - 1) IN
              [occ EXCEPT ![i] = [value |-> IF counter = 0 THEN Default
                                            ELSE occ[i].value,
                                  counter |-> counter]]
         ELSE mfo_decremented(occ, lst, i + 1, buffer_size)

RECURSIVE mfo_index(_, _, _, _, _)
\* the second loop of in() from index i on: the index of the entry that
\* holds value, or else of the last entry without occurrences
mfo_index(occ, value, i, buffer_size, index) ==
    IF i >= buffer_size THEN index
    ELSE IF occ[i].value = value THEN i
    ELSE IF occ[i].counter = 0
         THEN mfo_index(occ, value, i + 1, buffer_size, i)
         ELSE mfo_index(occ, value, i + 1, buffer_size, index)

\* m_occurrence_buffer[index].value = value; ++counter
mfo_counted(occ, value, buffer_size) ==
    LET index == mfo_index(occ, value, 0, buffer_size, 0) IN
    [occ EXCEPT ![index] = [value |-> value,
                            counter |-> Wrap(occ[index].counter + 1)]]

RECURSIVE mfo_pick(_, _, _)
\* the loop of out() from index i on, with candidate mfo
mfo_pick(i, buffer_size, mfo) ==
    IF i >= buffer_size THEN mfo
    ELSE IF occurrences[i].counter > mfo.counter
         THEN mfo_pick(i + 1, buffer_size, occurrences[i])
         ELSE mfo_pick(i + 1, buffer_size, mfo)

MovingMostFrequentOccurrence_in(value) ==
    /\ IF m_occurrence_buffer = NullPtr \/ ~valid
       THEN /\ UNCHANGED <<bufvars, occurrences>>
            /\ op' = Call("in", value, NullPtr, Default, FALSE, FALSE)
       ELSE /\ op' = Call("in", value, NullPtr, Default, FALSE, TRUE)
            /\ BufPushFront(value)
            /\ IF full /\ value = last
               THEN UNCHANGED occurrences
               ELSE occurrences' =
                       mfo_counted(IF full
                                   THEN mfo_decremented(occurrences, last, 0, size)
                                   ELSE occurrences,
                                   value, size)
    /\ hist' = Append(hist, value)
    /\ UNCHANGED <<crashed, m_occurrence_buffer>>

MovingMostFrequentOccurrence_out ==
    /\ op' = Call("out", Default, NullPtr,
                  IF m_occurrence_buffer = NullPtr \/ ~valid THEN Default
                  ELSE mfo_pick(1, m_buffer_count, occurrences[0]).value,
                  TRUE, FALSE)
    /\ UNCHANGED <<bufvars, crashed, hist, m_occurrence_buffer, occurrences>>

MovingMostFrequentOccurrence_reset ==
    /\ BufClear
    /\ op' = Call("reset", Default, NullPtr, Default, FALSE, FALSE)
    /\ hist' = Append(hist, ResetMark)
    /\ UNCHANGED <<crashed, m_occurrence_buffer, occurrences>>

InitOccurrence ==
    /\ InitObject(RunSizes, {FALSE}, {ZeroRun}, BOOLEAN)
    /\ kind = "MovingMostFrequentOccurrence"
    /\ m_occurrence_buffer \in {NullPtr, 1}
    /\ \E g \in {Default, MaxSample} :
          /\ m_occurrence_buffer = NullPtr => g = Default
          /\ occurrences = NoOccurrences(g)

NextOccurrence ==
    /\ ~crashed
    /\ \/ \E value \in Samples :
             Len(hist) < MaxIn /\ MovingMostFrequentOccurrence_in(value)
       \/ MovingMostFrequentOccurrence_out
       \/ Len(hist) < MaxIn /\ MovingMostFrequentOccurrence_reset
    /\ UNCHANGED <<buildvars, m_min, m_max, array, m_median, m_sum, turned>>

SpecOccurrence == InitOccurrence /\ [][NextOccurrence]_vars

(***************************************************************************)
(* SpecTable: a MovingMostFrequentOccurrence over an Occurrence array that *)
(* the caller has zeroed, fed samples of one value more than Samples has   *)
(* and read; reset() is not called.                                        *)
(***************************************************************************)
TableInputs == Samples \cup {ResetMark + 1}

InitTable ==
    /\ InitObject(RunSizes, {FALSE}, {ZeroRun}, BOOLEAN)
    /\ kind = "MovingMostFrequentOccurrence"
    /\ m_occurrence_buffer \in {NullPtr, 1}
    /\ occurrences = NoOccurrences(Default)

NextTable ==
    /\ ~crashed
    /\ \/ \E value \in TableInputs :
             Len(hist) < MaxIn /\ MovingMostFrequentOccurrence_in(value)
       \/ MovingMostFrequentOccurrence_out
    /\ UNCHANGED <<buildvars, m_min, m_max, array, m_median, m_sum, turned>>

SpecTable == InitTable /\ [][NextTable]_vars

(***************************************************************************)
(* MovingAverage (src/src/movingaverage.h).  The samples are not negative, *)
(* so m_sum / count() is the same quotient whether count() is promoted to  *)
(* int or m_sum converted to unsigned.                                     *)
(***************************************************************************)
\* mutant: the sample that the push overwrites stays in the sum
average_sum_never_subtracts(value) == m_sum + value

\* m_sum after in(value) on a valid buffer
average_sum(value) == (IF full THEN m_sum - last ELSE m_sum) + value

MovingAverage_in(value) ==
    /\ IF ~valid
       THEN /\ UNCHANGED <<bufvars, m_sum>>
            /\ op' = Call("in", value, NullPtr, Default, FALSE, FALSE)
       ELSE /\ m_sum' = average_sum(value)
            /\ BufPushFront(value)
            /\ op' = Call("in", value, NullPtr, Default, FALSE, TRUE)
    /\ hist' = Append(hist, value)
    /\ UNCHANGED crashed

\* out() divides by count() untested: with no element the division by zero
\* either traps or yields some value
MovingAverage_out ==
    /\ IF m_buffer_count = 0
       THEN \/ /\ crashed' = TRUE
               /\ op' = Call("out", Default, NullPtr, Default, FALSE, FALSE)
            \/ /\ crashed' = FALSE
               /\ \E ret \in Samples :
                     op' = Call("out", Default, NullPtr, ret, TRUE, FALSE)
       ELSE /\ crashed' = crashed
            /\ op' = Call("out", Default, NullPtr, m_sum \div m_buffer_count,
                          TRUE, TRUE)
    /\ UNCHANGED <<bufvars, hist, m_sum>>

\* mutant: reset() empties the buffer and keeps the sum
MovingAverage_reset_keeps_sum ==
    /\ UNCHANGED m_sum
    /\ BufClear
    /\ op' = Call("reset", Default, NullPtr, Default, FALSE, FALSE)
    /\ hist' = Append(hist, ResetMark)
    /\ UNCHANGED crashed

MovingAverage_reset ==
    /\ m_sum' = Default
    /\ BufClear
    /\ op' = Call("reset", Default, NullPtr, Default, FALSE, FALSE)
    /\ hist' = Append(hist, ResetMark)
    /\ UNCHANGED crashed

NextAverage ==
    /\ ~crashed
    /\ \/ \E value \in Samples : Len(hist) < MaxIn /\ MovingAverage_in(value)
       \/ MovingAverage_out
       \/ Len(hist) < MaxIn /\ MovingAverage_reset
    /\ UNCHANGED <<buildvars, m_min, m_max, array, m_median,
                   m_occurrence_buffer, occurrences, turned>>

SpecAverage == InitFilter("MovingAverage") /\ [][NextAverage]_vars

(***************************************************************************)
(* SpecFilters: an object of one of the four filter classes, fed the least *)
(* and the greatest sample, read and reset.                                *)
(***************************************************************************)
FilterInputs == {Default, MaxSample}

Filter_in(value) ==
    \/ /\ kind = "MovingMedian"
       /\ MovingMedian_in(value)
       /\ UNCHANGED <<m_min, m_max, m_median, m_sum>>
    \/ /\ kind = "MovingMiddle"
       /\ MovingMiddle_in(value)
       /\ UNCHANGED <<m_median, m_sum>>
    \/ /\ kind = "IntervalMedian"
       /\ IntervalMedian_in(value)
       /\ UNCHANGED <<m_min, m_max, m_sum>>
    \/ /\ kind = "MovingAverage"
       /\ MovingAverage_in(value)
       /\ UNCHANGED <<m_min, m_max, m_median>>

Filter_out ==
    /\ \/ kind = "MovingMedian" /\ MovingMedian_out
       \/ kind = "MovingMiddle" /\ MovingMiddle_out
       \/ kind = "IntervalMedian" /\ IntervalMedian_out
       \/ kind = "MovingAverage" /\ MovingAverage_out
    /\ UNCHANGED <<m_min, m_max, m_median, m_sum>>

Filter_reset ==
    \/ /\ kind = "MovingMedian"
       /\ MovingMedian_reset
       /\ UNCHANGED <<m_min, m_max, m_median, m_sum>>
    \/ /\ kind = "MovingMiddle"
       /\ MovingMiddle_reset
       /\ UNCHANGED <<m_median, m_sum>>
    \/ /\ kind = "IntervalMedian"
       /\ IntervalMedian_reset
       /\ UNCHANGED <<m_min, m_max, m_sum>>
    \/ /\ kind = "MovingAverage"
       /\ MovingAverage_reset
       /\ UNCHANGED <<m_min, m_max, m_median>>

InitFilters == \E k \in FilterKinds : InitFilter(k)

NextFilters ==
    /\ ~crashed
    /\ UNCHANGED <<buildvars, array, m_occurrence_buffer, occurrences, turned>>
    /\ \/ \E value \in FilterInputs : Len(hist) < MaxIn /\ Filter_in(value)
       \/ Filter_out
       \/ Len(hist) < MaxIn /\ Filter_reset

SpecFilters == InitFilters /\ [][NextFilters]_vars

(***************************************************************************)
(*                              Properties                                 *)
(***************************************************************************)
\* the object was constructed over an array with a capacity 2^k, k >= 2
ConstructedValid == valid /\ ~ctor_bad_size(cap)

\* the number of slots between tail and head, from the cursors alone
Occupancy == (m_buffer_head - m_buffer_tail) % cap

\* C1: a Buffer constructed over non-null storage with capacity 2^k never
\* holds more than capacity - 1 elements (count never exceeds the mask),
\* whatever pushFront, pushBack, popFront, popBack, rotateForeward,
\* rotateBackward and clear calls are made.
C1_CountWithinCapacity ==
    ConstructedValid =>
        /\ m_buffer_count <= cap - 1
        /\ m_buffer_count <= m_buffer_mask

\* a push was made onto a buffer that already held capacity - 1 elements
C1_Witness ==
    /\ ConstructedValid
    /\ op.name \in {"pushFront", "pushBack"}
    /\ op.before = cap - 1
    /\ m_buffer_count = cap - 1

\* C3: pushFront(v) on a valid buffer that holds size() elements keeps
\* count() == size(), drops exactly the oldest element (the one last()
\* returned), keeps the others in order, and afterwards first() == v and
\* last() is the former second-oldest; on a valid buffer that is not full it
\* adds one to count() and drops nothing.
C3_PushFrontEvictsOldest ==
    [][(op'.name = "pushFront" /\ valid) =>
         IF m_buffer_count = size
         THEN /\ m_buffer_count' = m_buffer_count
              /\ m_buffer_count' = size'
              /\ last = LiveSeq[m_buffer_count]
              /\ LiveSeq' = <<op'.arg>> \o SubSeq(LiveSeq, 1, m_buffer_count - 1)
              /\ first' = op'.arg
              /\ last' = LiveSeq[m_buffer_count - 1]
         ELSE /\ m_buffer_count' = m_buffer_count + 1
              /\ LiveSeq' = <<op'.arg>> \o LiveSeq
    ]_vars

\* pushFront has just been called on a full valid buffer
C3_Witness ==
    /\ valid
    /\ op.name = "pushFront"
    /\ op.before = size
    /\ m_buffer_count = size

AllCalls == {"pushFront", "pushBack", "popFront", "popBack", "at", "first",
             "last", "rotateForeward", "rotateBackward", "erase", "clear"}

\* C7: on a Buffer in the invalid state every operation is a no-op: head,
\* tail, count and mask stay as they are, no storage slot is read or
\* written, and a value-returning operation returns the default value.
C7_InvalidCallsAreNoOps ==
    [][(~valid /\ op'.name \in AllCalls) =>
         /\ UNCHANGED cursors
         /\ ~op'.acc
         /\ ~crashed'
         /\ op'.has_ret => op'.ret = Default
    ]_vars

\* C9: at(index) with index >= count(), also on an empty buffer, returns
\* the default value, reads no slot and leaves the buffer as it is.
C9_AtOutOfRangeIsDefault ==
    [][(op'.name = "at" /\ op'.arg >= m_buffer_count) =>
         /\ op'.ret = Default
         /\ ~op'.acc
         /\ UNCHANGED bufvars
    ]_vars

\* C10: for a Buffer constructed over non-null storage with capacity 2^k,
\* size() == 2^k - 1, and full() is true exactly when the buffer holds
\* 2^k - 1 elements.
C10_SizeAndFull ==
    ConstructedValid =>
        /\ size = cap - 1
        /\ full <=> (Occupancy = cap - 1)
        /\ full <=> (m_buffer_count = cap - 1)

\* a full buffer, and one that has been full and is not any more
C10_Witness ==
    /\ ConstructedValid
    /\ \/ full /\ op.name = "pushBack"
       \/ ~full /\ op.name = "popBack" /\ op.before = cap - 1

Min2(a, b) == IF a < b THEN a ELSE b

\* C2: on a valid, initially empty Buffer that is only pushed to at the
\* front, count() is the number of pushes up to size(), and at(i) for
\* i < count() is the (i+1)-th most recently pushed value: at(0) the newest.
C2_AtIsReversePushOrder ==
    valid =>
        /\ m_buffer_count = Min2(Len(hist), size)
        /\ \A i \in 0 .. (m_buffer_count - 1) : at(i) = hist[Len(hist) - i]

\* more values than size() have been pushed and at() has read the oldest
\* element that is left
C2_Witness ==
    /\ valid
    /\ Len(hist) > size
    /\ op.name = "at"
    /\ op.arg = m_buffer_count - 1
    /\ op.ret = hist[Len(hist) - op.arg]
    /\ \E i, j \in 1 .. Len(hist) : hist[i] # hist[j]

\* C6: init with a capacity below 4 or not a power of two leaves the buffer
\* invalid, whatever its state and whatever the storage pointer.
C6_InitBadCapacityIsInvalid ==
    [][(op'.name = "init" /\ ctor_bad_size(op'.arg)) => ~valid']_vars

\* C8: a Buffer constructed with capacity <= 3, with a capacity that is not
\* a power of two, or with null storage has valid() == false, size() == 0
\* and count() == 0, and no operation other than init makes it valid.
C8_InvalidUntilInit ==
    /\ (op.name = "ctor" /\ (ctor_bad_size(op.arg) \/ op.ptr = NullPtr)) =>
           (~valid /\ size = 0 /\ m_buffer_count = 0)
    /\ [][(~valid /\ op'.name # "init") =>
            (~valid' /\ size' = 0 /\ m_buffer_count' = 0)]_vars

\* an object constructed over an array with a refused capacity has been
\* pushed to and is still invalid
C8_Witness ==
    /\ ctor_bad_size(cap)
    /\ op.name = "pushFront"
    /\ ~valid

RECURSIVE Insert(_, _)
\* x put into its place in the ascending sequence srt
Insert(x, srt) ==
    IF srt = <<>> THEN <<x>>
    ELSE IF x <= Head(srt) THEN <<x>> \o srt
    ELSE <<Head(srt)>> \o Insert(x, Tail(srt))

RECURSIVE Ascending(_)
\* the ascending sort of a sequence
Ascending(sq) == IF sq = <<>> THEN <<>> ELSE Insert(Head(sq), Ascending(Tail(sq)))

\* C5: with n >= 3 elements in the buffer, whatever they are,
\* MovingMedian::out() returns the value at index floor(n/2) of the
\* ascending sort of the n live elements.
C5_MedianIsMiddleOfSort ==
    (op.name = "out" /\ m_buffer_count >= 3) =>
        op.ret = Ascending(LiveSeq)[(m_buffer_count \div 2) + 1]

\* out() has been called on a window of 6 elements whose scan had to set
\* both pruning bounds: the newest element is below the median and the one
\* before it above
C5_Witness ==
    /\ op.name = "out"
    /\ m_buffer_count = 6
    /\ at(0) < op.ret
    /\ at(1) > op.ret
    /\ at(2) # op.ret

\* the elements at(0) .. at(count()-1) as a set
LiveSet == {at(i) : i \in 0 .. (m_buffer_count - 1)}

\* C4: for MovingMiddle on a valid buffer, after any in() and reset() calls
\* that leave the buffer non-empty, m_min is the minimum and m_max the
\* maximum of the elements live in the buffer.
C4_MinMaxAreExtremes ==
    (valid /\ m_buffer_count >= 1) =>
        /\ m_min \in LiveSet
        /\ m_max \in LiveSet
        /\ \A x \in LiveSet : m_min <= x /\ x <= m_max

\* after a reset, in() has pushed onto a full buffer whose oldest element
\* was the only maximum, and the rescan has found the lower maximum
C4_Witness ==
    /\ valid
    /\ op.name = "in"
    /\ op.before = size
    /\ \E k \in 1 .. Len(hist) : hist[k] = ResetMark
    /\ hist[Len(hist) - size] = MaxSample
    /\ m_max < MaxSample
    /\ m_min < m_max

Pops == {"popFront", "popBack"}
Rotations == {"rotateForeward", "rotateBackward"}

\* how many times x occurs in the sequence sq
Occ(sq, x) == Cardinality({i \in DOMAIN sq : sq[i] = x})

\* C11: from any state clear() leaves the buffer with empty() true and
\* count() 0, bound to the same storage and with the same size(), and a
\* clear() that follows a clear() changes nothing.
C11_ClearEmpties ==
    [][op'.name = "clear" =>
         /\ empty'
         /\ m_buffer_count' = 0
         /\ m_buffer' = m_buffer
         /\ size' = size
         /\ op.name = "clear" => UNCHANGED bufvars
    ]_vars

\* a full valid buffer has been cleared
C11_Witness ==
    /\ valid
    /\ op.name = "clear"
    /\ op.before = size
    /\ m_buffer_count = 0

\* C12 as stated: pushBack(v) on a valid buffer that holds capacity - 1
\* elements keeps count(), and the elements afterwards are v and the former
\* ones without the oldest (the one last() returned).
C12_PushBackEvictsOldest ==
    [][(op'.name = "pushBack" /\ valid /\ m_buffer_count = size) =>
         /\ m_buffer_count' = m_buffer_count
         /\ \A x \in Values :
              Occ(LiveSeq', x) =
                  Occ(SubSeq(LiveSeq, 1, m_buffer_count - 1) \o <<op'.arg>>, x)
    ]_vars

\* C12 amended: pushBack(v) on a valid buffer that holds capacity - 1
\* elements keeps count(), makes v the oldest element (last() == v) and
\* removes the newest one, the element first() returned before the call;
\* the others keep their order.
C12_PushBackEvictsNewest ==
    [][(op'.name = "pushBack" /\ valid /\ m_buffer_count = size) =>
         /\ m_buffer_count' = m_buffer_count
         /\ last' = op'.arg
         /\ first = LiveSeq[1]
         /\ LiveSeq' = Tail(LiveSeq) \o <<op'.arg>>
    ]_vars

\* pushBack has been called on a full valid buffer whose newest and oldest
\* elements differed from the value pushed
C12_Witness ==
    /\ valid
    /\ op.name = "pushBack"
    /\ op.before = size
    /\ m_buffer_count = size
    /\ last = op.arg
    /\ first # op.arg

\* C13: on a valid buffer that is not empty popFront removes the newest
\* element and reports what first() returned, popBack removes the oldest and
\* reports what last() returned; either takes one off count() and leaves the
\* other elements in their order.
C13_PopRemovesEnd ==
    [][(op'.name \in Pops /\ valid /\ ~empty) =>
         /\ m_buffer_count' = m_buffer_count - 1
         /\ op'.has_ret = (op'.ptr # NullPtr)
         /\ IF op'.name = "popFront"
            THEN /\ op'.has_ret => op'.ret = first
                 /\ LiveSeq' = Tail(LiveSeq)
            ELSE /\ op'.has_ret => op'.ret = last
                 /\ LiveSeq' = SubSeq(LiveSeq, 1, m_buffer_count - 1)
    ]_vars

\* popBack has reported the oldest element of a full buffer, and the
\* element that is now the oldest is another value
C13_Witness ==
    /\ valid
    /\ op.name = "popBack"
    /\ op.has_ret
    /\ op.before = size
    /\ m_buffer_count = size - 1
    /\ last # op.ret

\* C14: popFront and popBack on an empty or unbound buffer leave head, tail
\* and count as they are, touch no storage and do not write through the
\* caller's pointer.
C14_PopOnEmptyIsNoOp ==
    [][(op'.name \in Pops /\ (~valid \/ empty)) =>
         /\ UNCHANGED cursors
         /\ UNCHANGED mem
         /\ ~op'.has_ret
         /\ ~op'.acc
    ]_vars

\* popFront has been called with a non-null pointer on a valid buffer that
\* had been filled and emptied again
C14_Witness ==
    /\ valid
    /\ op.name = "popFront"
    /\ op.ptr # NullPtr
    /\ op.before = 0
    /\ m_buffer_count = 0
    /\ m_buffer_head # 0
    /\ ~op.has_ret

\* C15: on a valid buffer that is not empty first() is at(0) and last() is
\* at(count() - 1); on an empty or unbound buffer both are the default
\* value.
C15_FirstLastAreEnds ==
    /\ (valid /\ ~empty) =>
          /\ m_buffer_count >= 1
          /\ first = at(0)
          /\ last = at(m_buffer_count - 1)
    /\ (~valid \/ empty) => (first = Default /\ last = Default)

\* last() has been called on a buffer whose live range wraps around the end
\* of the storage and whose newest element is another value
C15_Witness ==
    /\ valid
    /\ op.name = "last"
    /\ m_buffer_count >= 2
    /\ m_buffer_tail > m_buffer_head
    /\ op.ret = last
    /\ op.ret # first

\* C16: on a valid buffer with fewer than capacity - 1 elements
\* rotateForeward and rotateBackward leave head, tail, count and every
\* storage slot as they are.
C16_RotateOnlyWhenFull ==
    [][(op'.name \in Rotations /\ valid /\ m_buffer_count < size) =>
         /\ UNCHANGED bufvars
         /\ ~op'.acc
    ]_vars

\* rotateBackward has been called on a valid buffer that held some elements
\* but was not full
C16_Witness ==
    /\ valid
    /\ op.name = "rotateBackward"
    /\ op.before > 0
    /\ op.before < size
    /\ m_buffer_count = op.before

\* C17: on a full valid buffer rotateForeward makes the oldest element the
\* newest and moves every other element one place back (at(i) afterwards is
\* at(i-1) before), rotateBackward makes the newest element the oldest and
\* moves every other one place forward; count() and the multiset of the
\* elements stay.
C17_RotateIsCyclicShift ==
    [][(op'.name \in Rotations /\ valid /\ full) =>
         /\ m_buffer_count' = m_buffer_count
         /\ \A x \in Values : Occ(LiveSeq', x) = Occ(LiveSeq, x)
         /\ IF op'.name = "rotateForeward"
            THEN /\ first' = last
                 /\ LiveSeq' = <<last>> \o SubSeq(LiveSeq, 1, m_buffer_count - 1)
            ELSE /\ last' = first
                 /\ LiveSeq' = Tail(LiveSeq) \o <<first>>
    ]_vars

\* rotateForeward has moved the oldest element of a full buffer to the
\* front, past a newer element of another value
C17_Witness ==
    /\ valid
    /\ op.name = "rotateForeward"
    /\ op.acc
    /\ m_buffer_count = size
    /\ at(0) # at(1)
    /\ last # first

\* C18: copyToArray(dest, start, n) with dest non-null, n > 0 and
\* start + n <= count(), start + n == count() included, copies exactly
\* at(start) .. at(start+n-1) into dest and leaves the buffer as it is.
C18_CopyWithinRange ==
    [][(/\ op'.name = "copyToArray"
        /\ valid
        /\ op'.ptr # NullPtr
        /\ op'.arg[2] > 0
        /\ op'.arg[1] + op'.arg[2] <= m_buffer_count) =>
         /\ \A i \in Slots :
              array'[i] = IF op'.arg[1] <= i /\ i < op'.arg[1] + op'.arg[2]
                          THEN at(i) ELSE Untouched
         /\ UNCHANGED bufvars
    ]_vars

\* C19: copyToArray(dest, start, n) with start + n > count(), or with n == 0
\* and start >= count(), or on an empty or unbound buffer, or with a null
\* dest, writes no element of dest and leaves the buffer as it is.
C19_CopyOutOfRangeRejected ==
    [][(/\ op'.name = "copyToArray"
        /\ \/ op'.arg[1] + op'.arg[2] > m_buffer_count
           \/ op'.arg[2] = 0 /\ op'.arg[1] >= m_buffer_count
           \/ ~valid
           \/ empty
           \/ op'.ptr = NullPtr) =>
         /\ copy_indices(op'.ptr, op'.arg[1], op'.arg[2]) = {}
         /\ array' = FreshArray
         /\ ~op'.acc
         /\ UNCHANGED bufvars
    ]_vars

\* copyToArray has been called on a valid buffer for a range that starts
\* among the live elements and ends beyond them
C19_Witness ==
    /\ valid
    /\ op.name = "copyToArray"
    /\ op.ptr # NullPtr
    /\ op.arg[2] > 0
    /\ op.arg[1] < m_buffer_count
    /\ op.arg[1] + op.arg[2] > m_buffer_count
    /\ op.arg[1] + op.arg[2] <= MaxSize
    /\ array = FreshArray

\* C20: copyToArray(dest, start, 0) with dest non-null on a valid buffer
\* with start < count() copies at(start) .. at(count()-1), all of them and
\* nothing else.
C20_CopyThroughEnd ==
    [][(/\ op'.name = "copyToArray"
        /\ valid
        /\ op'.ptr # NullPtr
        /\ op'.arg[2] = 0
        /\ op'.arg[1] < m_buffer_count) =>
         /\ copy_indices(op'.ptr, op'.arg[1], op'.arg[2])
               = op'.arg[1] .. (m_buffer_count - 1)
         /\ \A i \in Slots :
              array'[i] = IF op'.arg[1] <= i /\ i < m_buffer_count
                          THEN at(i) ELSE Untouched
         /\ UNCHANGED bufvars
    ]_vars

\* copyToArray(dest, 1, 0) has copied all but the newest element of a full
\* buffer whose live range wraps around the end of the storage
C20_Witness ==
    /\ valid
    /\ op.name = "copyToArray"
    /\ op.arg = <<1, 0>>
    /\ m_buffer_count = size
    /\ m_buffer_tail > m_buffer_head
    /\ array[0] = Untouched
    /\ array[1] = at(1)
    /\ array[1] # array[2]
    /\ array[2] # Untouched

\* twice the distance of x to the arithmetic midpoint
\* m_min + (m_max - m_min)/2 of the cached extremes
MidDist2(x) ==
    IF 2 * x >= m_min + m_max
    THEN 2 * x - (m_min + m_max)
    ELSE (m_min + m_max) - 2 * x

\* the indices of the live elements nearest to the midpoint
Nearest ==
    {i \in 0 .. (m_buffer_count - 1) :
        \A j \in 0 .. (m_buffer_count - 1) : MidDist2(at(i)) <= MidDist2(at(j))}

\* C21: with count() >= 2 MovingMiddle::out() returns a live element whose
\* distance to the midpoint m_min + (m_max - m_min)/2 is the least among the
\* live elements, and of several such elements the one with the lowest
\* at() index.
C21_OutIsNearestToMiddle ==
    (op.name = "out" /\ m_buffer_count >= 2) =>
        \E i \in Nearest :
           /\ op.ret = at(i)
           /\ \A j \in Nearest : i <= j

\* C22: MovingMedian::out() leaves head, tail, count and every storage
\* slot as they are, whatever the buffer holds, and a call that follows
\* another call of out() returns the same value.
C22_OutIsReadOnly ==
    [][op'.name = "out" =>
         /\ UNCHANGED bufvars
         /\ op.name = "out" => op'.ret = op.ret
    ]_vars

\* out() has returned an element of a full buffer whose live range wraps
\* around the end of the storage
C22_Witness ==
    /\ op.name = "out"
    /\ valid
    /\ m_buffer_count = size
    /\ m_buffer_tail > m_buffer_head
    /\ op.ret # Default
    /\ op.ret # at(0)

\* C24: MovingMedian::out() returns the default value when the buffer holds
\* fewer than 3 elements, whatever they are.
C24_OutBelowThreeIsDefault ==
    (op.name = "out" /\ m_buffer_count < 3) =>
        /\ op.ret = Default
        /\ ~op.acc

\* out() has been called on a buffer of two elements, neither of them the
\* default value
C24_Witness ==
    /\ op.name = "out"
    /\ m_buffer_count = 2
    /\ at(0) # Default
    /\ at(1) # Default
    /\ op.ret = Default

\* C30: for every content of n >= 3 elements the outer loop of
\* MovingMedian::out ends in the match branch: the pruning bounds skip no
\* element whose block of equals holds the rank floor(n/2), so the returned
\* variable is assigned, with an element whose block holds that rank.
C30_ScanAlwaysMatches ==
    (valid /\ m_buffer_count >= 3) =>
        LET middle_index == m_buffer_count \div 2
            r == median_scan(0, m_buffer_count, middle_index,
                             FALSE, Default, FALSE, Default)
        IN /\ r.assigned
           /\ median_left(r.value, m_buffer_count) <= middle_index
           /\ middle_index < median_right(r.value, m_buffer_count)
           /\ MovingMedian_out_values = {r.value}

\* out() has been called on a window of at least 5 elements whose scan met
\* an element above the median first and one below it next
C30_Witness ==
    /\ op.name = "out"
    /\ m_buffer_count >= 5
    /\ at(0) > op.ret
    /\ at(1) < op.ret
    /\ at(2) = op.ret

\* C26: pushBack(v) on a valid buffer that is not full makes v the oldest
\* element (last() == v), adds one to count() and keeps the others in
\* order; on a full buffer it keeps count(), makes last() == v and removes
\* exactly the newest element, the one first() returned before the call.
C26_PushBackMirrorsPushFront ==
    [][(op'.name = "pushBack" /\ valid) =>
         /\ last' = op'.arg
         /\ IF m_buffer_count = size
            THEN /\ m_buffer_count' = m_buffer_count
                 /\ first = LiveSeq[1]
                 /\ LiveSeq' = Tail(LiveSeq) \o <<op'.arg>>
            ELSE /\ m_buffer_count' = m_buffer_count + 1
                 /\ LiveSeq' = LiveSeq \o <<op'.arg>>
    ]_vars

\* pushBack has put a value behind the elements of a buffer that was
\* neither empty nor full
C26_Witness ==
    /\ valid
    /\ op.name = "pushBack"
    /\ op.before > 0
    /\ op.before < size
    /\ m_buffer_count = op.before + 1
    /\ last = op.arg
    /\ first # op.arg

\* C27: init(storage, capacity) with non-null storage and a capacity 2^k,
\* k >= 2, leaves the buffer valid and empty with count() == 0 and
\* size() == capacity - 1, whatever its state before, also when it was
\* bound to the same storage.
C27_InitReinitialises ==
    [][(op'.name = "init" /\ op'.ptr # NullPtr /\ ~ctor_bad_size(op'.arg)) =>
         /\ valid'
         /\ empty'
         /\ m_buffer_count' = 0
         /\ size' = op'.arg - 1
    ]_vars

\* C28: erase() sets every slot of the capacity to the default value and
\* leaves head, tail and count as they are, so that every at(i) with
\* i < count() returns the default value; clear() without the erase policy
\* resets the cursors and modifies no slot.
C28_EraseAndClearAreIndependent ==
    [][/\ (op'.name = "erase" /\ valid) =>
            /\ UNCHANGED cursors
            /\ \A i \in 0 .. m_buffer_mask : mem'[i] = Default
            /\ \A i \in 0 .. (m_buffer_count - 1) : at(i)' = Default
       /\ (op'.name = "clear" /\ ~m_safe_erase) =>
            /\ UNCHANGED mem
            /\ m_buffer_head' = 0
            /\ m_buffer_tail' = 0
            /\ m_buffer_count' = 0
    ]_vars

\* erase() has zeroed the storage of a full buffer whose live range wraps
\* around the end of the storage
C28_Witness ==
    /\ valid
    /\ op.name = "erase"
    /\ op.acc
    /\ m_buffer_count = size
    /\ m_buffer_tail > m_buffer_head
    /\ \A i \in 0 .. m_buffer_mask : mem[i] = Default

Max2(a, b) == IF a > b THEN a ELSE b

\* C29: in MovingMiddle::in on a full buffer, with e the evicted value and
\* v the new one, the rescan runs only when e is the cached m_min or m_max,
\* v # e, and v does not take the place of that extreme (neither e == m_min
\* with v < m_min nor e == m_max with v > m_max); when e is neither cached
\* extreme the rescan does not run and m_min, m_max come from comparing v
\* with them.
C29_RescanOnlyOnLostExtreme ==
    [][(op'.name = "in" /\ valid /\ full) =>
         /\ op'.rescan =>
               /\ last = m_min \/ last = m_max
               /\ op'.arg # last
               /\ ~(last = m_min /\ op'.arg < m_min)
               /\ ~(last = m_max /\ op'.arg > m_max)
         /\ (last # m_min /\ last # m_max) =>
               /\ ~op'.rescan
               /\ m_min' = Min2(m_min, op'.arg)
               /\ m_max' = Max2(m_max, op'.arg)
    ]_vars

\* in() has pushed a value onto a full buffer whose oldest element was
\* another value and lay strictly between two other elements, without a
\* rescan
C29_Witness ==
    /\ valid
    /\ op.name = "in"
    /\ op.before = size
    /\ ~op.rescan
    /\ \A k \in 1 .. Len(hist) : hist[k] # ResetMark
    /\ Len(hist) > size
    /\ op.arg # hist[Len(hist) - size]
    /\ \E a, b \in (Len(hist) - size + 1) .. (Len(hist) - 1) :
          /\ hist[a] < hist[Len(hist) - size]
          /\ hist[Len(hist) - size] < hist[b]

\* the calls of in() since the construction or the latest reset()
RECURSIVE SinceReset(_)
SinceReset(h) ==
    IF h = <<>> THEN <<>>
    ELSE IF h[Len(h)] = ResetMark THEN <<>>
    ELSE Append(SinceReset(SubSeq(h, 1, Len(h) - 1)), h[Len(h)])

\* C23: with S = capacity - 1, IntervalMedian::out() returns the default
\* value until S samples have been fed since the construction or the latest
\* reset; after the k*S-th in() it is the element of rank floor(S/2) of the
\* samples (k-1)*S+1 .. k*S and stays so until the (k+1)*S-th; the buffer
\* holds the samples fed since the latest multiple of S, none right after
\* the k*S-th in().
C23_MedianOncePerWindow ==
    valid =>
        LET h == SinceReset(hist)
            k == Len(h) \div size
            expected ==
                IF k = 0 THEN Default
                ELSE Ascending(SubSeq(h, (k - 1) * size + 1, k * size))
                         [(size \div 2) + 1]
        IN /\ m_buffer_count = Len(h) % size
           /\ m_median = expected
           /\ op.name = "out" => op.ret = expected

\* out() has returned the median of the second window, which is not the
\* median of the first, and the buffer is empty
C23_Witness ==
    /\ valid
    /\ op.name = "out"
    /\ Len(SinceReset(hist)) = 2 * size
    /\ m_buffer_count = 0
    /\ op.ret # Ascending(SubSeq(SinceReset(hist), 1, size))[(size \div 2) + 1]
    /\ op.ret # Default
    /\ op.ret # hist[Len(hist)]

\* C25: for MovingMostFrequentOccurrence on a valid buffer that is not
\* empty, after any sequence of in() calls out() returns a value that is in
\* the buffer and occurs there at least as often as any other (after a
\* single in(v), v).
C25_OutIsMostFrequent ==
    (/\ op.name = "out"
     /\ valid
     /\ m_occurrence_buffer # NullPtr
     /\ m_buffer_count >= 1
     /\ \A k \in 1 .. Len(hist) : hist[k] # ResetMark) =>
        /\ op.ret \in LiveSet
        /\ \A x \in LiveSet : Occ(LiveSeq, x) <= Occ(LiveSeq, op.ret)

\* the assignments made to the pruning bounds by out() on the current
\* content
BoundUpdates ==
    median_bounds(0, m_buffer_count, m_buffer_count \div 2,
                  FALSE, Default, FALSE, Default)

\* C31: in one run of the selection loop of MovingMedian::out every
\* assignment to skip_greater_than that finds the bound already set gives
\* it a strictly smaller value, every such assignment to skip_lesser_than
\* gives it a strictly greater value, and after every assignment that
\* leaves both bounds set skip_lesser_than < skip_greater_than.
C31_BoundsOnlyTighten ==
    m_buffer_count >= 3 =>
        \A k \in 1 .. Len(BoundUpdates) :
            LET u == BoundUpdates[k] IN
            /\ (u.bound = "skip_greater_than" /\ u.was_found) => u.new < u.old
            /\ (u.bound = "skip_lesser_than" /\ u.was_found) => u.new > u.old
            /\ (u.greater_found /\ u.lesser_found) => u.lesser < u.greater

\* a run that assigns a bound it had already set
C31_Witness ==
    /\ m_buffer_count >= 3
    /\ \E k \in 1 .. Len(BoundUpdates) : BoundUpdates[k].was_found

\* the calls that change the content of a deque
DequeCalls == {"pushFront", "pushBack", "popFront", "popBack",
               "rotateForeward", "rotateBackward", "clear"}

\* a bounded deque of at most max elements, newest first: a push onto a
\* full deque drops the element at the other end, a rotation of a full
\* deque moves an end element to the other end and leaves a deque that is
\* not full as it is, a pop of an empty deque does nothing
DequeStep(d, name, value, max) ==
    CASE name = "pushFront" ->
            IF Len(d) = max THEN <<value>> \o SubSeq(d, 1, Len(d) - 1)
            ELSE <<value>> \o d
      [] name = "pushBack" ->
            IF Len(d) = max THEN Tail(d) \o <<value>>
            ELSE d \o <<value>>
      [] name = "popFront" -> IF d = <<>> THEN d ELSE Tail(d)
      [] name = "popBack" -> IF d = <<>> THEN d ELSE SubSeq(d, 1, Len(d) - 1)
      [] name = "rotateForeward" ->
            IF Len(d) = max THEN <<d[Len(d)]>> \o SubSeq(d, 1, Len(d) - 1)
            ELSE d
      [] name = "rotateBackward" ->
            IF Len(d) = max THEN Tail(d) \o <<d[1]>>
            ELSE d
      [] name = "clear" -> <<>>
      [] OTHER -> d

\* C32: a Buffer constructed valid with capacity 2^k starts as the empty
\* deque, and every pushFront, pushBack, popFront, popBack, rotateForeward,
\* rotateBackward and clear takes at(0) .. at(count()-1) to what the same
\* call makes of a bounded deque of at most 2^k - 1 elements holding that
\* sequence, with count() its length, full() true exactly when it has
\* 2^k - 1 elements and empty() exactly when it has none.
C32_RefinesBoundedDeque ==
    /\ ConstructedValid => (LiveSeq = <<>> /\ empty /\ ~full)
    /\ [][(ConstructedValid /\ op'.name \in DequeCalls) =>
             LET d == DequeStep(LiveSeq, op'.name, op'.arg, cap - 1) IN
             /\ LiveSeq' = d
             /\ m_buffer_count' = Len(d)
             /\ full' = (Len(d) = cap - 1)
             /\ empty' = (d = <<>>)
       ]_vars

\* rotateBackward has moved the newest element of a full buffer whose
\* elements wrap around the end of the storage behind an older element of
\* another value
C32_Witness ==
    /\ ConstructedValid
    /\ op.name = "rotateBackward"
    /\ op.acc
    /\ m_buffer_tail > m_buffer_head
    /\ m_buffer_count = cap - 1
    /\ last # at(m_buffer_count - 2)

\* the capacity handed to the constructor is 2^k
CapIsPowerOfTwo == cap > 0 /\ BitAnd(cap, cap - 1) = 0

\* C33: in every state of a Buffer constructed with a capacity 2^k (over
\* non-null storage, and over null storage as well) head and tail lie in
\* 0 .. mask and count == (head - tail) & mask, so that empty(), which is
\* head == tail, holds exactly when count() == 0.
C33_CursorsAndCount ==
    CapIsPowerOfTwo =>
        /\ 0 <= m_buffer_head /\ m_buffer_head <= m_buffer_mask
        /\ 0 <= m_buffer_tail /\ m_buffer_tail <= m_buffer_mask
        /\ m_buffer_count = BitAnd(Wrap(m_buffer_head - m_buffer_tail), m_buffer_mask)
        /\ empty <=> (count = 0)

\* the last element has been popped off the back of a valid buffer whose
\* cursors now meet away from slot 0
C33_Witness ==
    /\ ConstructedValid
    /\ CapIsPowerOfTwo
    /\ op.name = "popBack"
    /\ op.before = 1
    /\ empty
    /\ count = 0
    /\ m_buffer_head # 0

\* C34: in no state of any Buffer, valid or invalid, are full() and empty()
\* both true.
C34_NeverFullAndEmpty == ~(full /\ empty)

\* C35: on a full valid buffer a run of rotations in which forward and
\* backward calls cancel (rotateForeward then rotateBackward, or the
\* reverse), or that amounts to capacity - 1 rotations in one direction,
\* leaves at(0) .. at(count()-1) and count() as they were before the run.
C35_RotationsUndo ==
    (valid /\ full /\ turned.net % size = 0) =>
        /\ LiveSeq = turned.from
        /\ m_buffer_count = Len(turned.from)

\* rotateBackward has just undone a rotateForeward made on a full buffer
\* whose newest and oldest elements differ
C35_Witness ==
    /\ valid
    /\ full
    /\ op.name = "rotateBackward"
    /\ op.acc
    /\ turned.net = 0
    /\ first # last

\* the fields as the constructor of a filter leaves them when it is
\* handed the storage buffer with the content m and the capacity sz
FreshFilter(buffer, sz, m) ==
    [mask |-> ctor_mask(buffer, sz), tail |-> 0, head |-> 0, count |-> 0,
     buffer |-> ctor_buffer(buffer, sz), safe_erase |-> FALSE, mem |-> m,
     min |-> Default, max |-> Default, median |-> Default, sum |-> Default]

\* the fields of the filter and the content of its storage
FilterState ==
    [mask |-> m_buffer_mask, tail |-> m_buffer_tail, head |-> m_buffer_head,
     count |-> m_buffer_count, buffer |-> m_buffer,
     safe_erase |-> m_safe_erase, mem |-> mem,
     min |-> m_min, max |-> m_max, median |-> m_median, sum |-> m_sum]

\* C36: reset() of a MovingMedian, MovingMiddle, IntervalMedian or
\* MovingAverage leaves every field of the filter as the constructor leaves
\* it in a new filter built at that moment over the same storage with the
\* same capacity, so that what the filter returns from then on is what the
\* new filter returns for the same inputs: no sample, cached median,
\* minimum, maximum or sum from before the reset is left in it.
C36_ResetIsFresh ==
    [][op'.name = "reset" =>
          \E buffer \in {NullPtr, 1} :
             /\ ctor_buffer(buffer, cap) = m_buffer
             /\ FilterState' = FreshFilter(buffer, cap, mem)
    ]_vars

\* a MovingAverage was fed the greatest sample, reset and fed again, and
\* its out() is the average of the samples fed since the reset
C36_Witness ==
    /\ kind = "MovingAverage"
    /\ valid
    /\ op.name = "out"
    /\ op.acc
    /\ op.ret = Default
    /\ \E i \in 2 .. (Len(hist) - 1) :
          /\ hist[i] = ResetMark
          /\ hist[i - 1] = MaxSample
          /\ \A j \in (i + 1) .. Len(hist) : hist[j] = Default

RECURSIVE SumOf(_)
\* the sum of the elements of a sequence
SumOf(sq) == IF sq = <<>> THEN 0 ELSE sq[1] + SumOf(Tail(sq))

EntriesOf(x) ==
    {i \in RunSlots : occurrences[i].counter # 0 /\ occurrences[i].value = x}

RECURSIVE CounterSum(_)
\* the sum of the counters of the entries 0 .. i
CounterSum(i) ==
    IF i < 0 THEN 0 ELSE occurrences[i].counter + CounterSum(i - 1)

\* C38: in a MovingMostFrequentOccurrence over a valid buffer and a zeroed
\* occurrence table, after any in() calls, every value in the buffer has
\* exactly one table entry with a non-zero counter, that counter is the
\* number of times the value is in the buffer, no other entry has a
\* non-zero counter, and the counters add up to count().
C38_TableMatchesBuffer ==
    (valid /\ m_occurrence_buffer # NullPtr) =>
        /\ \A x \in LiveSet :
              /\ Cardinality(EntriesOf(x)) = 1
              /\ \A i \in EntriesOf(x) :
                    occurrences[i].counter = Occ(LiveSeq, x)
        /\ \A i \in RunSlots :
              occurrences[i].counter # 0 => occurrences[i].value \in LiveSet
        /\ CounterSum(7) = m_buffer_count

\* C39: reset() of a MovingMostFrequentOccurrence leaves the filter as a
\* new one over a zeroed occurrence table: right after it no entry of the
\* table counts a sample fed before it.
C39_ResetForgetsOccurrences ==
    (op.name = "reset" /\ valid /\ m_occurrence_buffer # NullPtr) =>
        \A i \in RunSlots : occurrences[i].counter = 0

=============================================================================
